---- MODULE Spec2Model ----
(***************************************************************************)
(* A model of the helio-mono event-sourced task / attention engine:       *)
(* the file event store, the SQLite projection and its rebuild, the task  *)
(* service, the attention service and the Lab control plane.              *)
(*                                                                         *)
(* Conventions.  A python None is NoTime (-1) where the field is a time   *)
(* or a number and the string "None" where it is a string.  A uuid4() is  *)
(* the next value of the counter nextId: fresh, never handed out twice.   *)
(* datetime.utcnow() is the variable clock; every handler advances it by  *)
(* one when it returns, so two requests never read the same instant.      *)
(* Floats of the Lab and of the ranker are integers in hundredths.        *)
(***************************************************************************)
EXTENDS Integers, Sequences, FiniteSets, TLC

VARIABLES
    tasks,      \* projection table tasks: task_id -> row
    objects,    \* projection tables todos / notes / tracks: object_id -> row
    log,        \* the event store: the JSON lines, in append order
    clock,      \* datetime.utcnow()
    nextId,     \* the next uuid4()
    last,       \* the response of the last request
    projection_metadata,  \* projection table projection_metadata
    attn,       \* the attention query in progress
    env,        \* os.environ as Config.from_env() reads it
    pc,         \* where each process stands inside the handler it is running
    files       \* the daily files of the event store: date -> lines

vars == <<tasks, objects, log, clock, nextId, last, projection_metadata, attn, env, pc, files>>

----------------------------------------------------------------------------
(* Bounds of the model *)

MaxOps == 4

----------------------------------------------------------------------------
(* Values *)

NoTime == -1
GhostId == 0

TASK_LABEL_NEEDS_REVIEW == "needs_review"

TerminalStatuses == {"done", "cancelled"}

NoTask == [task_id |-> GhostId]

IsRow(x) == DOMAIN x # {"task_id"}

----------------------------------------------------------------------------
(* Small helpers on python lists *)

RECURSIVE DictFromKeys(_)
\* list(dict.fromkeys(xs)): drop repeats, keep the first occurrence's place
DictFromKeys(xs) ==
    IF xs = <<>> THEN <<>>
    ELSE LET init == DictFromKeys(SubSeq(xs, 1, Len(xs) - 1))
             x    == xs[Len(xs)]
         IN  IF \E i \in 1..Len(init) : init[i] = x THEN init ELSE Append(init, x)

InList(x, xs) == \E i \in 1..Len(xs) : xs[i] = x

----------------------------------------------------------------------------
(* Event store (services/event_store/file_store.py) *)

\* The classes _deserialize_event knows; every other event_type falls back
\* to BaseEvent, whose fields are event_id, event_type, timestamp, metadata.
TypedEventClass(event_type) ==
    CASE event_type = "message_ingested"  -> "MessageIngestedEvent"
      [] event_type = "artifact_recorded" -> "ArtifactRecordedEvent"
      [] event_type = "object_extracted"  -> "ObjectExtractedEvent"
      [] OTHER -> "BaseEvent"

NoData == [none |-> TRUE]

\* BaseEvent(**event_data) ignores the extra keys: the payload is dropped.
_deserialize_event(line) ==
    LET cls == TypedEventClass(line.event_type)
    IN  [cls        |-> cls,
         event_id   |-> line.event_id,
         event_type |-> line.event_type,
         timestamp  |-> line.timestamp,
         metadata   |-> line.metadata,
         data       |-> IF cls = "BaseEvent" THEN NoData ELSE line.data]

\* event.model_dump_json(): every field of the event, on one line
SerializeEvent(event_id, event_type, timestamp, metadata, data) ==
    [event_id   |-> event_id,
     event_type |-> event_type,
     timestamp  |-> timestamp,
     metadata   |-> metadata,
     data       |-> data]

RECURSIVE SelectLines(_, _)
SelectLines(lines, event_types) ==
    IF lines = <<>> THEN <<>>
    ELSE LET rest == SelectLines(Tail(lines), event_types)
         IN  IF Head(lines).event_type \in event_types
             THEN <<_deserialize_event(Head(lines))>> \o rest
             ELSE rest

\* stream_events(event_types=...): the lines of the files in file order
stream_events(lines, event_types) == SelectLines(lines, event_types)

----------------------------------------------------------------------------
(* Projection store (services/query/service.py) *)

\* INSERT OR REPLACE INTO tasks ...: the row replaces the one with its task_id
_upsert_task(tbl, data) == (data.task_id :> data) @@ tbl

\* get_task_by_id: the row, or None when there is none
get_task_by_id(tbl, task_id) ==
    IF task_id \in DOMAIN tbl THEN tbl[task_id] ELSE NoTask

\* SELECT task_id FROM tasks WHERE source = ? AND source_ref = ?
TasksBySourceRef(tbl, source, source_ref) ==
    {i \in DOMAIN tbl : tbl[i].source = source /\ tbl[i].source_ref = source_ref}

\* Task(...) with the defaults of shared/contracts/tasks.py
NewTask(task_id, now) ==
    [task_id             |-> task_id,
     title               |-> "",
     body                |-> "None",
     status              |-> "open",
     priority            |-> "p2",
     due_at              |-> NoTime,
     do_not_start_before |-> NoTime,
     created_at          |-> now,
     updated_at          |-> now,
     completed_at        |-> NoTime,
     source              |-> "api",
     source_ref          |-> <<>>,
     dedup_group_id      |-> <<>>,
     labels              |-> <<>>,
     project             |-> "None",
     blocked_by          |-> {},
     agent_notes         |-> "None",
     explanations        |-> <<>>]

TaskExplanation(now, action, rationale) ==
    [ts |-> now, actor |-> "task_service", action |-> action, rationale |-> rationale]

\* The state a rebuild threads through the events it replays
ReplayState(tbl, objs, ordinals, uuid) ==
    [tasks |-> tbl, objects |-> objs, todo_ordinals |-> ordinals, nextId |-> uuid]

\* _upsert_todo / _upsert_note / _upsert_track: keyed by object_id, and stamped
\* with the time of the write
UpsertObject(objs, object_type, data, now) ==
    (data.object_id :>
        [object_id       |-> data.object_id,
         object_type     |-> object_type,
         title           |-> data.title,
         source_event_id |-> data.source_event_id,
         last_updated_at |-> now]) @@ objs

\* _canonicalize_todo_to_task: a todo becomes a Task under the synthetic
\* source_ref message_event:<source_event_id>:todo:<ordinal>, unless a task
\* with that source_ref is already there.  The Task gets a new uuid4 and
\* utcnow() as created_at / updated_at.
_canonicalize_todo_to_task(st, ev, ordinal, now) ==
    LET todo_data  == ev.data.object_data
        source_ref == <<"message_event", ev.data.source_event_id, "todo", ordinal>>
    IN  IF todo_data.title = "" THEN st
        ELSE IF TasksBySourceRef(st.tasks, "api", source_ref) # {} THEN st
        ELSE [st EXCEPT
                !.tasks = _upsert_task(st.tasks,
                    [NewTask(st.nextId, now) EXCEPT
                        !.title      = todo_data.title,
                        !.body       = todo_data.description,
                        !.source_ref = source_ref,
                        !.due_at     = todo_data.due_date,
                        !.labels     = <<TASK_LABEL_NEEDS_REVIEW>>]),
                !.nextId = st.nextId + 1]

_apply_extraction_event(st, ev, now) ==
    IF ev.data.object_type = "todo"
    THEN LET source_key == ev.data.source_event_id
             ordinal    == IF source_key \in DOMAIN st.todo_ordinals
                           THEN st.todo_ordinals[source_key] ELSE 0
             st1 == [st EXCEPT
                        !.objects = UpsertObject(st.objects, "todo", ev.data.object_data, now),
                        !.todo_ordinals = (source_key :> (ordinal + 1)) @@ st.todo_ordinals]
         IN  _canonicalize_todo_to_task(st1, ev, ordinal, now)
    ELSE IF ev.data.object_type \in {"note", "track"}
    THEN [st EXCEPT !.objects =
              UpsertObject(st.objects, ev.data.object_type, ev.data.object_data, now)]
    ELSE st

\* _apply_decision_event: upsert the task_snapshot of a task decision
_apply_decision_event(st, ev) ==
    IF ev.data.domain # "task" THEN st
    ELSE IF ~IsRow(ev.data.task_snapshot) THEN st
    ELSE [st EXCEPT !.tasks = _upsert_task(st.tasks, ev.data.task_snapshot)]

\* The loop body of rebuild_projections: dispatch on the event's class
ApplyEvent(st, ev, now) ==
    IF ev.cls = "ObjectExtractedEvent" THEN _apply_extraction_event(st, ev, now)
    ELSE IF ev.cls = "DecisionRecordedEvent" THEN _apply_decision_event(st, ev)
    ELSE st

RECURSIVE ReplayEvents(_, _, _)
ReplayEvents(st, events, now) ==
    IF events = <<>> THEN st
    ELSE ReplayEvents(ApplyEvent(st, Head(events), now), Tail(events), now)

\* rebuild_projections: clear the tables, replay the extraction and decision
\* events of the log
rebuild_projections(lines, uuid, now) ==
    ReplayEvents(ReplayState(<<>>, <<>>, <<>>, uuid),
                 stream_events(lines, {"object_extracted", "decision_recorded"}),
                 now)

----------------------------------------------------------------------------
(* Task service (services/task/service.py) *)

\* " ".join((s or "").lower().split()) on the strings of the model
Normalize(s) ==
    CASE s = "None"      -> ""
      [] s = "Buy milk"  -> "buy milk"
      [] s = "buy  MILK" -> "buy milk"
      [] s = "Call Bob"  -> "call bob"
      [] s = "Home"      -> "home"
      [] OTHER -> s

\* _compute_dedup_group_id: sha1 of "title|body|project" after normalising;
\* the digest is kept as the key it hashes (sha1 taken as injective here)
_compute_dedup_group_id(title, body, project) ==
    <<Normalize(title), Normalize(body), Normalize(project)>>

\* The response of a request, kept in last
Response(op, id, outcome) ==
    [op |-> op, id |-> id, outcome |-> outcome,
     source |-> "None", source_ref |-> <<>>, deps |-> {}]

TaskServiceMetadata == [service |-> "task_service"]

\* _record_decision: a DecisionRecordedEvent carrying the task snapshot
DecisionLine(event_id, now, action, rationale, task_snapshot, source, source_ref) ==
    SerializeEvent(event_id, "decision_recorded", now, TaskServiceMetadata,
        [domain        |-> "task",
         action        |-> action,
         source        |-> source,
         source_ref    |-> source_ref,
         task_snapshot |-> task_snapshot,
         rationale     |-> rationale])

\* (C1 mutant) the lookup keyed by source_ref alone
IngestLookup_IgnoringSource(tbl, request) ==
    {i \in DOMAIN tbl : tbl[i].source_ref = request.source_ref}

\* The lookup ingest_task starts with
IngestLookup(tbl, request) == TasksBySourceRef(tbl, request.source, request.source_ref)

\* SELECT COUNT(*) FROM tasks WHERE dedup_group_id = ? AND status NOT IN (done, cancelled)
DuplicateCount(tbl, dedup_group_id) ==
    Cardinality({i \in DOMAIN tbl :
        tbl[i].dedup_group_id = dedup_group_id /\ tbl[i].status \notin TerminalStatuses})

\* The Task ingest_task builds for a request with no existing task
IngestedTask(tbl, request, task_id, now) ==
    LET dedup_group_id == _compute_dedup_group_id(request.title, request.body, request.project)
        labels0        == DictFromKeys(request.labels)
        flagged        == DuplicateCount(tbl, dedup_group_id) > 0
                          /\ ~InList(TASK_LABEL_NEEDS_REVIEW, labels0)
        rationale      == IF flagged THEN "Potential duplicate detected; created and flagged for review"
                          ELSE "New task created"
    IN  [NewTask(task_id, now) EXCEPT
            !.title               = request.title,
            !.body                = request.body,
            !.source              = request.source,
            !.source_ref          = request.source_ref,
            !.priority            = IF request.priority = "None" THEN "p2" ELSE request.priority,
            !.due_at              = request.due_at,
            !.do_not_start_before = request.do_not_start_before,
            !.labels              = IF flagged THEN Append(labels0, TASK_LABEL_NEEDS_REVIEW) ELSE labels0,
            !.project             = request.project,
            !.dedup_group_id      = dedup_group_id,
            !.explanations        = <<TaskExplanation(now, "ingest", rationale)>>]

\* What a call of the task service works on: the projection, the log and the
\* ids handed out so far
SvcState == [tasks |-> tasks, log |-> log, nextId |-> nextId]

\* ingest_task from st once its SELECT by (source, source_ref) has returned
\* existing: the state it leaves, the task_id and created
IngestStepFrom(st, request, existing) ==
        IF existing # {}
        THEN LET task_id == CHOOSE i \in existing : TRUE
             IN  [tasks   |-> st.tasks,
                  log     |-> Append(st.log, DecisionLine(st.nextId, clock, "ingest_existing",
                                  "Idempotent ingest hit existing task for source/source_ref",
                                  get_task_by_id(st.tasks, task_id),
                                  request.source, request.source_ref)),
                  nextId  |-> st.nextId + 1,
                  task_id |-> task_id,
                  created |-> FALSE]
        ELSE LET task == IngestedTask(st.tasks, request, st.nextId, clock)
             IN  [tasks   |-> _upsert_task(st.tasks, task),
                  log     |-> Append(st.log, DecisionLine(st.nextId + 1, clock, "ingest_created",
                                  task.explanations[1].rationale, task,
                                  request.source, request.source_ref)),
                  nextId  |-> st.nextId + 2,
                  task_id |-> task.task_id,
                  created |-> TRUE]

\* ingest_task from st, the SELECT included
IngestStep(st, request) == IngestStepFrom(st, request, IngestLookup(st.tasks, request))

\* ingest_task
ingest_task(request) ==
    LET st == IngestStep(SvcState, request)
    IN  /\ clock < MaxOps
        /\ tasks' = st.tasks
        /\ log' = st.log
        /\ nextId' = st.nextId
        /\ last' = [Response("ingest", st.task_id, IF st.created THEN "created" ELSE "existing")
                       EXCEPT !.source = request.source, !.source_ref = request.source_ref]
        /\ clock' = clock + 1
        /\ UNCHANGED <<objects, projection_metadata, attn, env, pc, files>>

\* patch.model_dump(exclude_none=True) applied with setattr
ApplyPatch(task, patch) ==
    [k \in DOMAIN task |-> IF k \in DOMAIN patch THEN patch[k] ELSE task[k]]

\* The tail every mutation shares: stamp updated_at, append the explanation,
\* upsert, read the row back, record the decision
MutationStep(st, task, action, rationale) ==
    LET row == [task EXCEPT
                   !.updated_at   = clock,
                   !.explanations = Append(@, TaskExplanation(clock, action, rationale))]
    IN  [tasks  |-> _upsert_task(st.tasks, row),
         log    |-> Append(st.log, DecisionLine(st.nextId, clock, action, rationale,
                        get_task_by_id(_upsert_task(st.tasks, row), row.task_id),
                        "api", <<"task", row.task_id, action, clock>>)),
         nextId |-> st.nextId + 1]

\* A mutation as the whole effect of a request
CommitMutation(task, action, rationale) ==
    LET st == MutationStep(SvcState, task, action, rationale)
    IN  /\ tasks' = st.tasks
        /\ log' = st.log
        /\ nextId' = st.nextId

\* (C17 mutant) the miss recorded as a decision
NotFound_RecordingDecision(op, task_id) ==
    /\ last' = Response(op, task_id, "not_found")
    /\ log' = Append(log, DecisionLine(nextId, clock, op, "Task not found", NoTask,
                                       "api", <<"task", task_id, op, clock>>))
    /\ nextId' = nextId + 1
    /\ UNCHANGED tasks

\* if not existing: return None
NotFound(op, task_id) ==
    /\ last' = Response(op, task_id, "not_found")
    /\ UNCHANGED <<tasks, log, nextId>>

\* patch_task
patch_task(task_id, patch) ==
    /\ clock < MaxOps
    /\ IF task_id \notin DOMAIN tasks THEN NotFound("patch", task_id)
       ELSE /\ CommitMutation(ApplyPatch(tasks[task_id], patch), "patch", "Task updated via PATCH")
            /\ last' = Response("patch", task_id, "ok")
    /\ clock' = clock + 1
    /\ UNCHANGED <<objects, projection_metadata, attn, env, pc, files>>

\* complete_task
complete_task(task_id) ==
    /\ clock < MaxOps
    /\ IF task_id \notin DOMAIN tasks THEN NotFound("complete", task_id)
       ELSE /\ CommitMutation([tasks[task_id] EXCEPT !.status = "done", !.completed_at = clock],
                              "complete", "Task marked done")
            /\ last' = Response("complete", task_id, "ok")
    /\ clock' = clock + 1
    /\ UNCHANGED <<objects, projection_metadata, attn, env, pc, files>>

\* snooze_task
snooze_task(task_id, until) ==
    /\ clock < MaxOps
    /\ IF task_id \notin DOMAIN tasks THEN NotFound("snooze", task_id)
       ELSE /\ CommitMutation([tasks[task_id] EXCEPT !.status = "snoozed",
                                                     !.do_not_start_before = until],
                              "snooze", "Task snoozed")
            /\ last' = Response("snooze", task_id, "ok")
    /\ clock' = clock + 1
    /\ UNCHANGED <<objects, projection_metadata, attn, env, pc, files>>

\* The row link_task writes: the union of the old and the requested
\* dependencies, and status blocked when that union is not empty
LinkedTask(task, blocked_by) ==
    LET links == task.blocked_by \cup blocked_by
    IN  [task EXCEPT !.blocked_by = links,
                     !.status = IF links # {} THEN "blocked" ELSE @]

\* link_task
link_task(task_id, blocked_by) ==
    /\ clock < MaxOps
    /\ IF task_id \notin DOMAIN tasks
       THEN /\ last' = [Response("link", task_id, "not_found") EXCEPT !.deps = blocked_by]
            /\ UNCHANGED <<tasks, log, nextId>>
       ELSE /\ CommitMutation(LinkedTask(tasks[task_id], blocked_by),
                              "link", "Task dependencies updated")
            /\ last' = [Response("link", task_id, "ok") EXCEPT !.deps = blocked_by]
    /\ clock' = clock + 1
    /\ UNCHANGED <<objects, projection_metadata, attn, env, pc, files>>

\* No payload given (python None, or an empty dict, which "or" passes over)
NoPayload == [kind |-> "None"]

\* The fields every suggestion event has
SuggestionData(task_id, request) ==
    [task_id         |-> task_id,
     suggestion_id   |-> request.suggestion_id,
     suggestion_type |-> request.suggestion_type,
     rationale       |-> request.rationale]

EditStep_WheneverSupplied(st, task_id, request) ==
    IF request.edited_payload # NoPayload
    THEN [st EXCEPT
             !.log = Append(@, SerializeEvent(st.nextId, "suggestion_edited", clock, TaskServiceMetadata,
                                   SuggestionData(task_id, request)
                                   @@ [original_payload |-> request.payload,
                                       edited_payload   |-> request.edited_payload])),
             !.nextId = @ + 1]
    ELSE st

\* apply_suggestion, edited payload: the SuggestionEditedEvent when the edit
\* differs from the payload
EditStep(st, task_id, request) ==
    IF request.edited_payload # NoPayload /\ request.edited_payload # request.payload
    THEN [st EXCEPT
             !.log = Append(@, SerializeEvent(st.nextId, "suggestion_edited", clock, TaskServiceMetadata,
                                   SuggestionData(task_id, request)
                                   @@ [original_payload |-> request.payload,
                                       edited_payload   |-> request.edited_payload])),
             !.nextId = @ + 1]
    ELSE st

\* (C40 mutant) the subtask ingested under a reference of the parent alone
SubtaskRequest_ParentRef(existing, request, payload, index) ==
    [title               |-> payload.subtasks[index + 1].title,
     body                |-> payload.subtasks[index + 1].body,
     source              |-> "api",
     source_ref          |-> <<"task", existing.task_id, "split", existing.updated_at>>,
     priority            |-> existing.priority,
     due_at              |-> NoTime,
     do_not_start_before |-> NoTime,
     labels              |-> DictFromKeys(Append(existing.labels, "generated_split")),
     project             |-> IF payload.project # "None" THEN payload.project
                             ELSE existing.project]

\* The request apply_suggestion ingests for the subtask at index
SubtaskRequest(existing, request, payload, index) ==
    [title               |-> payload.subtasks[index + 1].title,
     body                |-> payload.subtasks[index + 1].body,
     source              |-> "api",
     source_ref          |-> <<"suggestion", request.suggestion_id, "split", index>>,
     priority            |-> existing.priority,
     due_at              |-> NoTime,
     do_not_start_before |-> NoTime,
     labels              |-> DictFromKeys(Append(existing.labels, "generated_split")),
     project             |-> IF payload.project # "None" THEN payload.project
                             ELSE existing.project]

\* for index, subtask in enumerate(subtasks): ingest_task(...), the first n
RECURSIVE SplitSteps(_, _, _, _, _)
SplitSteps(st, existing, request, payload, n) ==
    IF n = 0 THEN [tasks |-> st.tasks, log |-> st.log, nextId |-> st.nextId,
                   created_task_ids |-> <<>>]
    ELSE LET before == SplitSteps(st, existing, request, payload, n - 1)
             after  == IngestStep(before, SubtaskRequest(existing, request, payload, n - 1))
         IN  [tasks |-> after.tasks, log |-> after.log, nextId |-> after.nextId,
              created_task_ids |-> Append(before.created_task_ids, after.task_id)]

\* apply_suggestion, the structural effect: link_task for a dependency; the
\* subtasks ingested and the parent patched with split_parent for a split
EffectStep(st, existing, request, payload) ==
    IF request.suggestion_type = "dependency"
    THEN MutationStep(st, LinkedTask(st.tasks[existing.task_id], payload.blocked_by),
                      "link", "Task dependencies updated")
    ELSE LET split == SplitSteps(st, existing, request, payload, Len(payload.subtasks))
         IN  MutationStep(split,
                 ApplyPatch(split.tasks[existing.task_id],
                            [labels |-> DictFromKeys(Append(existing.labels, "split_parent"))]),
                 "patch", "Task updated via PATCH")

\* apply_suggestion
apply_suggestion(task_id, request) ==
    /\ clock < MaxOps
    /\ IF task_id \notin DOMAIN tasks THEN NotFound("apply_suggestion", task_id)
       ELSE LET existing == get_task_by_id(tasks, task_id)
                payload  == IF request.edited_payload # NoPayload
                            THEN request.edited_payload ELSE request.payload
                st       == EffectStep(EditStep(SvcState, task_id, request),
                                       existing, request, payload)
                created_task_ids ==
                    IF request.suggestion_type = "split"
                    THEN SplitSteps(EditStep(SvcState, task_id, request), existing, request,
                                    payload, Len(payload.subtasks)).created_task_ids
                    ELSE <<>>
            IN  /\ tasks' = st.tasks
                /\ log' = Append(st.log,
                              SerializeEvent(st.nextId, "suggestion_applied", clock, TaskServiceMetadata,
                                             SuggestionData(task_id, request)
                                             @@ [applied_payload |-> payload]))
                /\ nextId' = st.nextId + 1
                /\ last' = Response("apply_suggestion", task_id, "applied")
                            @@ [created_task_ids |-> created_task_ids]
    /\ clock' = clock + 1
    /\ UNCHANGED <<objects, projection_metadata, attn, env, pc, files>>

\* (C21 mutant) the rejection also recorded on the task, as a mutation
reject_suggestion_TouchingTask(task_id, request) ==
    /\ clock < MaxOps
    /\ IF task_id \notin DOMAIN tasks THEN NotFound("reject_suggestion", task_id)
       ELSE /\ CommitMutation(tasks[task_id], "reject_suggestion", "Suggestion rejected")
            /\ last' = Response("reject_suggestion", task_id, "rejected")
    /\ clock' = clock + 1
    /\ UNCHANGED <<objects, projection_metadata, attn, env, pc, files>>

\* reject_suggestion
reject_suggestion(task_id, request) ==
    /\ clock < MaxOps
    /\ IF task_id \notin DOMAIN tasks THEN NotFound("reject_suggestion", task_id)
       ELSE /\ log' = Append(log, SerializeEvent(nextId, "suggestion_rejected", clock, TaskServiceMetadata,
                                                 SuggestionData(task_id, request)))
            /\ nextId' = nextId + 1
            /\ last' = Response("reject_suggestion", task_id, "rejected")
            /\ UNCHANGED tasks
    /\ clock' = clock + 1
    /\ UNCHANGED <<objects, projection_metadata, attn, env, pc, files>>

----------------------------------------------------------------------------
(* Message ingestion and extraction
   (services/ingestion/service.py, services/extraction/service.py,
    services/api/routes/extraction.py) *)

\* ingest_message: append a MessageIngestedEvent
ingest_message(content) ==
    /\ clock < MaxOps
    /\ log' = Append(log, SerializeEvent(nextId, "message_ingested", clock, <<>>,
                  [source |-> "api", source_id |-> "m", content |-> content]))
    /\ nextId' = nextId + 1
    /\ last' = Response("ingest_message", nextId, "ok")
    /\ clock' = clock + 1
    /\ UNCHANGED <<tasks, objects, projection_metadata, attn, env, pc, files>>

\* get_by_id: the first line with that event_id, deserialised; None otherwise
NoEvent == [cls |-> "None"]

get_by_id(lines, event_id) ==
    LET hits == {i \in 1..Len(lines) : lines[i].event_id = event_id}
    IN  IF hits = {} THEN NoEvent
        ELSE _deserialize_event(lines[CHOOSE i \in hits : \A j \in hits : i <= j])

\* _validate_object and _record_extracted_object for the k-th object the LLM
\* returned: a Todo / Note / Track with a new object_id, in an
\* ObjectExtractedEvent
ExtractedLine(obj, k, message_event_id, uuid, now) ==
    SerializeEvent(uuid + 2 * (k - 1) + 1, "object_extracted", now, <<>>,
        [object_type     |-> obj.type,
         source_event_id |-> message_event_id,
         object_data     |-> [object_id       |-> uuid + 2 * (k - 1),
                              title           |-> obj.title,
                              description     |-> "None",
                              due_date        |-> NoTime,
                              created_at      |-> now,
                              source_event_id |-> message_event_id]])

\* extract_from_message: nothing unless the id names a MessageIngestedEvent;
\* otherwise one ObjectExtractedEvent per object of the LLM's result
extract_from_message(lines, message_event_id, result, uuid, now) ==
    IF get_by_id(lines, message_event_id).cls # "MessageIngestedEvent" THEN <<>>
    ELSE [k \in 1..Len(result) |-> ExtractedLine(result[k], k, message_event_id, uuid, now)]

\* extract_message (the route): 404 for an unknown event, then the extraction
extract_message(event_id, result) ==
    LET extracted == extract_from_message(log, event_id, result, nextId, clock)
    IN  /\ clock < MaxOps
        /\ IF get_by_id(log, event_id) = NoEvent
           THEN /\ last' = Response("extract", event_id, "not_found")
                /\ UNCHANGED <<log, nextId>>
           ELSE /\ log' = log \o extracted
                /\ nextId' = nextId + 2 * Len(extracted)
                /\ last' = Response("extract", event_id,
                               IF extracted # <<>> THEN "extracted"
                               ELSE "no_objects_or_already_extracted")
        /\ clock' = clock + 1
        /\ UNCHANGED <<tasks, objects, projection_metadata, attn, env, pc, files>>

\* rebuild_projections as a request
Rebuild ==
    LET st     == rebuild_projections(log, nextId, clock)
        events == stream_events(log, {"object_extracted", "decision_recorded"})
    IN  /\ clock < MaxOps
        /\ tasks' = st.tasks
        /\ objects' = st.objects
        /\ nextId' = st.nextId
        /\ projection_metadata' =
               [last_rebuild_timestamp  |-> clock,
                last_event_id_processed |->
                    IF events # <<>> THEN events[Len(events)].event_id
                    ELSE projection_metadata.last_event_id_processed]
        /\ last' = Response("rebuild", GhostId, "ok")
        /\ clock' = clock + 1
        /\ UNCHANGED <<log, attn, env, pc, files>>

----------------------------------------------------------------------------
(* The requests of the model *)

IngestRequest(source, ref, title, labels) ==
    [title |-> title, body |-> "None", source |-> source, source_ref |-> <<ref>>,
     priority |-> "None", due_at |-> NoTime, do_not_start_before |-> NoTime,
     labels |-> labels, project |-> "None"]

IngestRequests ==
    {IngestRequest("api", "r1", "Buy milk", <<>>),
     IngestRequest("api", "r2", "buy  MILK", <<"work", "work">>),
     IngestRequest("cli", "r1", "Call Bob", <<>>),
     IngestRequest("api", "r1", "Call Bob", <<TASK_LABEL_NEEDS_REVIEW>>)}

Patches == {[status |-> "done"], [status |-> "open"], [priority |-> "p0"]}

SnoozeUntil == {9}

\* The task ids a request may name: the tasks there are, and one there is not
TaskIdArgs == DOMAIN tasks \cup {GhostId}

LinkArgs == {{d} : d \in DOMAIN tasks}

\* TaskApplySuggestionRequest
ApplyRequest(suggestion_type, payload, edited_payload) ==
    [suggestion_id |-> "s1", suggestion_type |-> suggestion_type,
     payload |-> payload, edited_payload |-> edited_payload, rationale |-> "Looks right"]

\* A dependency suggestion as shown, one sent back with an edited payload
\* (the same dependency, or another one), and a split into one subtask
ApplySuggestionRequests ==
    {ApplyRequest("dependency", [kind |-> "dependency", blocked_by |-> deps], NoPayload) :
        deps \in LinkArgs}
    \cup {ApplyRequest("dependency", [kind |-> "dependency", blocked_by |-> pair[1]],
                                     [kind |-> "dependency", blocked_by |-> pair[2]]) :
             pair \in LinkArgs \X LinkArgs}
    \cup {ApplyRequest("split",
                       [kind |-> "split", project |-> "None",
                        subtasks |-> <<[title |-> "Call Bob", body |-> "None"]>>],
                       NoPayload)}

\* TaskRejectSuggestionRequest
RejectSuggestionRequests ==
    {[suggestion_id |-> "s1", suggestion_type |-> "split", rationale |-> "No longer needed"]}

ExtractionResults ==
    {<<[type |-> "todo", title |-> "Buy milk"]>>,
     <<[type |-> "todo", title |-> "Buy milk"], [type |-> "note", title |-> "Idea"]>>}

EventIdArgs == {log[i].event_id : i \in 1..Len(log)} \cup {GhostId}

AttnIdle == [pc |-> "idle"]

\* No variable of the environment set: Config falls back to its defaults
DefaultEnv == [ATTENTION_PERSONALIZATION_MODE |-> "deterministic"]

\* No process is inside a handler
NoProcess == <<>>

Init ==
    /\ tasks = <<>>
    /\ objects = <<>>
    /\ log = <<>>
    /\ clock = 0
    /\ nextId = 1
    /\ last = Response("init", GhostId, "none")
    /\ projection_metadata = [last_rebuild_timestamp |-> NoTime,
                              last_event_id_processed |-> GhostId]
    /\ attn = AttnIdle
    /\ env = DefaultEnv
    /\ pc = NoProcess
    /\ files = <<>>

Ingest == \E request \in IngestRequests : ingest_task(request)
Patch == \E task_id \in TaskIdArgs, patch \in Patches : patch_task(task_id, patch)
Complete == \E task_id \in TaskIdArgs : complete_task(task_id)
Snooze == \E task_id \in TaskIdArgs, until \in SnoozeUntil : snooze_task(task_id, until)
ApplySuggestion ==
    \E task_id \in TaskIdArgs : \E request \in ApplySuggestionRequests :
        apply_suggestion(task_id, request)

RejectSuggestion ==
    \E task_id \in TaskIdArgs : \E request \in RejectSuggestionRequests :
        reject_suggestion(task_id, request)

Link == \E task_id \in TaskIdArgs, blocked_by \in LinkArgs : link_task(task_id, blocked_by)
IngestMessage == ingest_message("buy milk and note the idea")
Extract == \E event_id \in EventIdArgs, result \in ExtractionResults : extract_message(event_id, result)

Next ==
    \/ Ingest
    \/ Patch
    \/ Complete
    \/ Snooze
    \/ Link
    \/ ApplySuggestion
    \/ RejectSuggestion
    \/ IngestMessage
    \/ Extract
    \/ Rebuild

Spec == Init /\ [][Next]_vars

----------------------------------------------------------------------------
(* The event store on its own, written by the processes that open it on one
   data directory (the API server, scripts/run_telegram_bot.py, the import
   and extraction scripts).  A writer builds its event, which stamps it with
   utcnow(), and then appends it to the file of the day of the append. *)

MaxStoreTicks == 6

\* Ticks of the clock in a day
StoreDayTicks == 3

Writers == {"api", "bot"}

\* sorted(glob("events-*.jsonl")), each file read line by line: the lines of
\* the days up to day, in that order
RECURSIVE ReadFiles(_, _)
ReadFiles(f, day) ==
    IF day < 0 THEN <<>>
    ELSE ReadFiles(f, day - 1) \o (IF day \in DOMAIN f THEN f[day] ELSE <<>>)

InitStore ==
    /\ tasks = <<>>
    /\ objects = <<>>
    /\ log = <<>>
    /\ clock = 0
    /\ nextId = 1
    /\ last = Response("init", GhostId, "none")
    /\ projection_metadata = [last_rebuild_timestamp |-> NoTime,
                              last_event_id_processed |-> GhostId]
    /\ attn = AttnIdle
    /\ env = DefaultEnv
    /\ pc = [w \in Writers |-> [at |-> "idle", event |-> NoData]]
    /\ files = <<>>

\* event = SomeEvent(...): event_id = uuid4(), timestamp = utcnow()
BuildEvent(w, event_type) ==
    /\ clock < MaxStoreTicks
    /\ pc[w].at = "idle"
    /\ pc' = [pc EXCEPT ![w] =
                 [at |-> "built",
                  event |-> SerializeEvent(nextId, event_type, clock,
                                           [service |-> w], [content |-> "buy milk"])]]
    /\ nextId' = nextId + 1
    /\ clock' = clock + 1
    /\ UNCHANGED <<tasks, objects, log, last, projection_metadata, attn, env, files>>

\* append: the line goes to the end of the file of today, today being the
\* day of the append
AppendEvent(w) ==
    /\ clock < MaxStoreTicks
    /\ pc[w].at = "built"
    /\ LET today == clock \div StoreDayTicks
           lines == IF today \in DOMAIN files THEN files[today] ELSE <<>>
       IN  /\ files' = (today :> Append(lines, pc[w].event)) @@ files
           /\ log' = ReadFiles(files', today)
    /\ pc' = [pc EXCEPT ![w] = [at |-> "idle", event |-> NoData]]
    /\ clock' = clock + 1
    /\ UNCHANGED <<tasks, objects, nextId, last, projection_metadata, attn, env>>

NextStore ==
    \/ \E w \in Writers : \E event_type \in {"message_ingested", "decision_recorded"} :
          BuildEvent(w, event_type)
    \/ \E w \in Writers : AppendEvent(w)

SpecStore == InitStore /\ [][NextStore]_vars

----------------------------------------------------------------------------
(* The task service step by step: a mutation is the upsert of the row with
   its commit, and then the append of the decision event; the projection and
   the log can be read, and the process can stop, between the two *)

MaxStepOps == 3

InitSteps ==
    /\ tasks = <<>>
    /\ objects = <<>>
    /\ log = <<>>
    /\ clock = 0
    /\ nextId = 1
    /\ last = Response("init", GhostId, "none")
    /\ projection_metadata = [last_rebuild_timestamp |-> NoTime,
                              last_event_id_processed |-> GhostId]
    /\ attn = AttnIdle
    /\ env = DefaultEnv
    /\ pc = [at |-> "idle", line |-> NoData, response |-> last]
    /\ files = <<>>

\* await self.query_service._upsert_task(...); self.query_service.conn.commit()
\* of a call that takes the service from SvcState to st
UpsertStep(st, response) ==
    /\ clock < MaxStepOps
    /\ pc.at = "idle"
    /\ tasks' = st.tasks
    /\ nextId' = st.nextId
    /\ pc' = [at |-> "upserted", line |-> st.log[Len(st.log)], response |-> response]
    /\ UNCHANGED <<objects, log, clock, last, projection_metadata, attn, env, files>>

\* await self._record_decision(...), and the return
RecordStep ==
    /\ pc.at = "upserted"
    /\ log' = Append(log, pc.line)
    /\ last' = pc.response
    /\ pc' = [at |-> "idle", line |-> NoData, response |-> pc.response]
    /\ clock' = clock + 1
    /\ UNCHANGED <<tasks, objects, nextId, projection_metadata, attn, env, files>>

StepsIngest ==
    \E request \in IngestRequests :
        LET st == IngestStep(SvcState, request)
        IN  UpsertStep(st, Response("ingest", st.task_id,
                                    IF st.created THEN "created" ELSE "existing"))

StepsPatch ==
    \E task_id \in DOMAIN tasks : \E patch \in Patches :
        UpsertStep(MutationStep(SvcState, ApplyPatch(tasks[task_id], patch),
                                "patch", "Task updated via PATCH"),
                   Response("patch", task_id, "ok"))

NextSteps ==
    \/ StepsIngest
    \/ StepsPatch
    \/ RecordStep

SpecSteps == InitSteps /\ [][NextSteps]_vars

----------------------------------------------------------------------------
(* ingest_task called by two request handlers at a time, each with its own
   TaskService and connection (routes/tasks.py, get_task_service): the SELECT
   by (source, source_ref) is one step, the rest of the call another *)

MaxRaceOps == 4

Handlers == {"h1", "h2"}

HandlerIdle == [at |-> "idle", request |-> NoData, existing |-> {}, created |-> FALSE,
                task_id |-> GhostId]

InitRace ==
    /\ tasks = <<>>
    /\ objects = <<>>
    /\ log = <<>>
    /\ clock = 0
    /\ nextId = 1
    /\ last = Response("init", GhostId, "none")
    /\ projection_metadata = [last_rebuild_timestamp |-> NoTime,
                              last_event_id_processed |-> GhostId]
    /\ attn = AttnIdle
    /\ env = DefaultEnv
    /\ pc = [h \in Handlers |-> HandlerIdle]
    /\ files = <<>>

\* existing = conn.execute("SELECT task_id FROM tasks WHERE source = ? AND
\* source_ref = ?").fetchone()
CheckStep(h, request) ==
    /\ clock < MaxRaceOps
    /\ pc[h].at # "checked"
    /\ pc' = [pc EXCEPT ![h] = [HandlerIdle EXCEPT
                                   !.at = "checked",
                                   !.request = request,
                                   !.existing = IngestLookup(tasks, request)]]
    /\ clock' = clock + 1
    /\ UNCHANGED <<tasks, objects, log, nextId, last, projection_metadata, attn, env, files>>

\* The rest of ingest_task, decided by what the SELECT returned
WriteStep(h) ==
    /\ pc[h].at = "checked"
    /\ LET st == IngestStepFrom(SvcState, pc[h].request, pc[h].existing)
       IN  /\ tasks' = st.tasks
           /\ log' = st.log
           /\ nextId' = st.nextId
           /\ pc' = [pc EXCEPT ![h].at = "returned",
                               ![h].created = st.created,
                               ![h].task_id = st.task_id]
           /\ last' = [Response("ingest", st.task_id,
                                IF st.created THEN "created" ELSE "existing")
                          EXCEPT !.source = pc[h].request.source,
                                 !.source_ref = pc[h].request.source_ref]
    /\ UNCHANGED <<objects, clock, projection_metadata, attn, env, files>>

NextRace ==
    \/ \E h \in Handlers : \E request \in IngestRequests : CheckStep(h, request)
    \/ \E h \in Handlers : WriteStep(h)

SpecRace == InitRace /\ [][NextRace]_vars

----------------------------------------------------------------------------
(* rebuild_projections statement by statement.  The rebuild runs inside
   transaction(self.conn): from its first DELETE to its commit the changes are
   those of its own connection, pc.rebuild.conn, and the variables tasks and
   objects are the committed tables, which is what a connection of another
   request or process reads (journal_mode = WAL).  The open write transaction
   keeps the other writers out until it ends. *)

RebuildIdle ==
    [at |-> "idle", conn |-> NoData, events |-> <<>>, applied |-> 0,
     before |-> [tasks |-> <<>>, objects |-> <<>>]]

ReaderIdle == [rows |-> <<>>, objects |-> <<>>, during |-> FALSE]

InitRebuild ==
    /\ tasks = <<>>
    /\ objects = <<>>
    /\ log = <<>>
    /\ clock = 0
    /\ nextId = 1
    /\ last = Response("init", GhostId, "none")
    /\ projection_metadata = [last_rebuild_timestamp |-> NoTime,
                              last_event_id_processed |-> GhostId]
    /\ attn = AttnIdle
    /\ env = DefaultEnv
    /\ pc = [rebuild |-> RebuildIdle, reader |-> ReaderIdle]
    /\ files = <<>>

\* with transaction(self.conn): the four DELETEs, then stream_events
RebuildBegin_Autocommit ==
    /\ clock < MaxOps
    /\ pc.rebuild.at # "replaying"
    /\ pc' = [pc EXCEPT !.rebuild =
                 [at      |-> "replaying",
                  conn    |-> ReplayState(<<>>, <<>>, <<>>, nextId),
                  events  |-> stream_events(log, {"object_extracted", "decision_recorded"}),
                  applied |-> 0,
                  before  |-> [tasks |-> tasks, objects |-> objects]]]
    /\ tasks' = <<>>
    /\ objects' = <<>>
    /\ UNCHANGED <<log, clock, nextId, last, projection_metadata, attn, env, files>>

RebuildBegin ==
    /\ clock < MaxOps
    /\ pc.rebuild.at # "replaying"
    /\ pc' = [pc EXCEPT !.rebuild =
                 [at      |-> "replaying",
                  conn    |-> ReplayState(<<>>, <<>>, <<>>, nextId),
                  events  |-> stream_events(log, {"object_extracted", "decision_recorded"}),
                  applied |-> 0,
                  before  |-> [tasks |-> tasks, objects |-> objects]]]
    /\ UNCHANGED <<tasks, objects, log, clock, nextId, last, projection_metadata,
                   attn, env, files>>

\* One turn of the loop over events
RebuildApply ==
    /\ pc.rebuild.at = "replaying"
    /\ pc.rebuild.events # <<>>
    /\ pc' = [pc EXCEPT
                 !.rebuild.conn = ApplyEvent(pc.rebuild.conn, Head(pc.rebuild.events), clock),
                 !.rebuild.events = Tail(pc.rebuild.events),
                 !.rebuild.applied = pc.rebuild.applied + 1]
    /\ UNCHANGED <<tasks, objects, log, clock, nextId, last, projection_metadata,
                   attn, env, files>>

\* A statement of the block raises: transaction() rolls back and re-raises
RebuildFail ==
    /\ pc.rebuild.at = "replaying"
    /\ pc' = [pc EXCEPT !.rebuild.at = "failed",
                        !.rebuild.conn = NoData,
                        !.rebuild.events = <<>>]
    /\ last' = Response("rebuild", GhostId, "error")
    /\ UNCHANGED <<tasks, objects, log, clock, nextId, projection_metadata,
                   attn, env, files>>

\* The loop is over: the two projection_metadata rows, then conn.commit()
RebuildCommit ==
    /\ pc.rebuild.at = "replaying"
    /\ pc.rebuild.events = <<>>
    /\ LET events == stream_events(log, {"object_extracted", "decision_recorded"})
       IN  projection_metadata' =
               [last_rebuild_timestamp  |-> clock,
                last_event_id_processed |->
                    IF events # <<>> THEN events[Len(events)].event_id
                    ELSE projection_metadata.last_event_id_processed]
    /\ tasks' = pc.rebuild.conn.tasks
    /\ objects' = pc.rebuild.conn.objects
    /\ nextId' = pc.rebuild.conn.nextId
    /\ pc' = [pc EXCEPT !.rebuild = RebuildIdle]
    /\ last' = Response("rebuild", GhostId, "ok")
    /\ clock' = clock + 1
    /\ UNCHANGED <<log, attn, env, files>>

\* A query of another connection: it reads the committed tables
ReadTables ==
    /\ pc' = [pc EXCEPT !.reader = [rows    |-> tasks,
                                    objects |-> objects,
                                    during  |-> pc.rebuild.at = "replaying"]]
    /\ pc'.reader # pc.reader
    /\ UNCHANGED <<tasks, objects, log, clock, nextId, last, projection_metadata,
                   attn, env, files>>

NextRebuild ==
    \/ pc.rebuild.at # "replaying" /\ Ingest
    \/ pc.rebuild.at # "replaying" /\ IngestMessage
    \/ pc.rebuild.at # "replaying" /\ Extract
    \/ RebuildBegin
    \/ RebuildApply
    \/ RebuildFail
    \/ RebuildCommit
    \/ ReadTables

SpecRebuild == InitRebuild /\ [][NextRebuild]_vars

----------------------------------------------------------------------------
(* Claims about ingest, rebuild and linking *)

\* The rows of tbl other than those named are what they were in old
SameRowsExcept(old, new, ids) ==
    /\ DOMAIN old \ ids = DOMAIN new \ ids
    /\ \A i \in DOMAIN old \ ids : new[i] = old[i]

\* C1: an ingest whose (source, source_ref) has no task creates one task,
\* with a new id, and reports created; an ingest whose (source, source_ref)
\* already has a task reports created=false with that task's id and leaves
\* the tasks table as it was; so the second of two ingests in a row of the
\* same (source, source_ref) returns the first one's task_id and changes no row.
C1_IdempotentIngest ==
    [][last'.op = "ingest" =>
          LET before == TasksBySourceRef(tasks, last'.source, last'.source_ref)
          IN  /\ before = {} =>
                    /\ last'.outcome = "created"
                    /\ last'.id \notin DOMAIN tasks
                    /\ DOMAIN tasks' = DOMAIN tasks \cup {last'.id}
                    /\ SameRowsExcept(tasks, tasks', {last'.id})
                    /\ TasksBySourceRef(tasks', last'.source, last'.source_ref) = {last'.id}
              /\ before # {} =>
                    /\ last'.outcome = "existing"
                    /\ before = {last'.id}
                    /\ tasks' = tasks
              /\ (last.op = "ingest" /\ last.source = last'.source
                                     /\ last.source_ref = last'.source_ref) =>
                    /\ last'.outcome = "existing"
                    /\ last'.id = last.id
                    /\ tasks' = tasks
    ]_vars

\* C1 witness: a second ingest of a (source, source_ref) has answered
\* created=false, and the log holds the created and the existing decision
C1_Witness ==
    /\ last.op = "ingest"
    /\ last.outcome = "existing"
    /\ \E i, j \in 1..Len(log) :
          /\ i < j
          /\ log[i].event_type = "decision_recorded"
          /\ log[j].event_type = "decision_recorded"
          /\ log[i].data.action = "ingest_created"
          /\ log[j].data.action = "ingest_existing"
          /\ log[i].data.source_ref = log[j].data.source_ref
          /\ log[i].data.source = log[j].data.source

\* C2: two rebuilds in a row, the log unchanged between them, leave the same
\* task rows and the same todo / note / track rows.
C2_ReplayDeterministic ==
    [][(last.op = "rebuild" /\ last'.op = "rebuild" /\ log' = log) =>
          (tasks' = tasks /\ objects' = objects)]_vars

\* C3: when every event of the log is a decision of the task service, a
\* rebuild leaves the task rows the requests had written.
C3_RebuildKeepsTasks ==
    [][(last'.op = "rebuild"
        /\ \A i \in 1..Len(log) : log[i].event_type = "decision_recorded") =>
          tasks' = tasks]_vars

\* The tasks a task depends on, directly or through others
RECURSIVE DependenciesWithin(_, _, _)
DependenciesWithin(tbl, frontier, seen) ==
    LET next == UNION {IF t \in DOMAIN tbl THEN tbl[t].blocked_by ELSE {} : t \in frontier}
        new  == next \ seen
    IN  IF new = {} THEN seen ELSE DependenciesWithin(tbl, new, seen \cup new)

Dependencies(tbl, task_id) == DependenciesWithin(tbl, {task_id}, {})

\* C4: no task depends on itself, directly or through other tasks.
C4_BlockedByAcyclic ==
    \A t \in DOMAIN tasks : t \notin Dependencies(tasks, t)

\* C5: a link of A to a B that already depends on A answers CycleDetected,
\* appends nothing to the log and changes no task row.
C5_CyclicLinkRejected ==
    [][(/\ last'.op = "link"
        /\ last'.id \in DOMAIN tasks
        /\ \E b \in last'.deps : b # last'.id /\ last'.id \in Dependencies(tasks, b)) =>
          (/\ last'.outcome = "cycle_detected"
           /\ log' = log
           /\ tasks' = tasks)]_vars

----------------------------------------------------------------------------
(* Attention service (services/attention/service.py).  Times are in hours;
   scores and confidences are in hundredths. *)

NoScore == -100000

bucket_rank(bucket) ==
    CASE bucket = "urgent_due_soon"        -> 0
      [] bucket = "ready_high_priority"    -> 1
      [] bucket = "ready_normal"           -> 2
      [] bucket = "blocked"                -> 3
      [] bucket = "deferred_or_gated"      -> 4
      [] bucket = "completed_or_cancelled" -> 5

\* (C15 mutant) the due-date rule tried before the snoozed / gated rule
_determine_bucket_DueBeforeGate(status, priority, due_at, do_not_start_before, now) ==
    IF status \in {"done", "cancelled"} THEN "completed_or_cancelled"
    ELSE IF status = "blocked" THEN "blocked"
    ELSE IF due_at # NoTime /\ due_at - now <= 72 THEN "urgent_due_soon"
    ELSE IF status = "snoozed" \/ (do_not_start_before # NoTime /\ do_not_start_before > now)
         THEN "deferred_or_gated"
    ELSE IF priority \in {"p0", "p1"} THEN "ready_high_priority"
    ELSE "ready_normal"

\* _determine_bucket: the first rule that matches
_determine_bucket(status, priority, due_at, do_not_start_before, now) ==
    IF status \in {"done", "cancelled"} THEN "completed_or_cancelled"
    ELSE IF status = "blocked" THEN "blocked"
    ELSE IF status = "snoozed" \/ (do_not_start_before # NoTime /\ do_not_start_before > now)
         THEN "deferred_or_gated"
    ELSE IF due_at # NoTime /\ due_at - now <= 72 THEN "urgent_due_soon"
    ELSE IF priority \in {"p0", "p1"} THEN "ready_high_priority"
    ELSE "ready_normal"

\* _is_task_stale (services/query/service.py)
_is_task_stale(task, now) ==
    IF task.status \in TerminalStatuses THEN FALSE
    ELSE IF task.due_at # NoTime /\ task.due_at < now THEN TRUE
    ELSE task.updated_at # NoTime /\ task.updated_at < now - 7 * 24

DueDelta(due_at, now) ==
    IF due_at = NoTime THEN 0
    ELSE IF due_at - now < 0 THEN 60
    ELSE IF due_at - now <= 24 THEN 45
    ELSE IF due_at - now <= 72 THEN 35
    ELSE IF due_at - now <= 7 * 24 THEN 20
    ELSE 5

PriorityDelta(priority) ==
    CASE priority = "p0" -> 30
      [] priority = "p1" -> 20
      [] priority = "p2" -> 10
      [] OTHER -> 0

\* age_days = max(0, now - updated_at) in days, compared with 14, 7 and 3
AgeDelta(updated_at, now) ==
    IF updated_at = NoTime THEN 0
    ELSE IF now - updated_at >= 14 * 24 THEN 18
    ELSE IF now - updated_at >= 7 * 24 THEN 12
    ELSE IF now - updated_at >= 3 * 24 THEN 6
    ELSE 0

UrgencyScore(task, now) ==
    DueDelta(task.due_at, now) + PriorityDelta(task.priority) + AgeDelta(task.updated_at, now)
    - (IF task.status = "blocked" THEN 15 ELSE 0)
    - (IF task.status = "snoozed" THEN 25 ELSE 0)
    - (IF task.do_not_start_before # NoTime /\ task.do_not_start_before > now THEN 30 ELSE 0)

\* What ShadowRanker.score gave for a task: a result, or an exception
RankerRaised == [raised |-> TRUE, score |-> NoScore, confidence |-> NoScore]
RankerResult(score, confidence) == [raised |-> FALSE, score |-> score, confidence |-> confidence]

\* The model fields of a candidate after the try / except around ranker.score
ModelFields(enable_shadow_ranker, outcome) ==
    IF enable_shadow_ranker /\ ~outcome.raised
    THEN [model_score |-> outcome.score, model_confidence |-> outcome.confidence]
    ELSE [model_score |-> NoScore, model_confidence |-> NoScore]

\* _score_task: the candidate of a task
_score_task(task, now, enable_shadow_ranker, outcome) ==
    LET bucket == _determine_bucket(task.status, task.priority, task.due_at,
                                    task.do_not_start_before, now)
        model  == ModelFields(enable_shadow_ranker, outcome)
    IN  [task_id                   |-> task.task_id,
         status                    |-> task.status,
         priority                  |-> task.priority,
         due_at                    |-> task.due_at,
         updated_at                |-> task.updated_at,
         is_stale                  |-> _is_task_stale(task, now),
         is_actionable             |-> task.status \in {"open", "in_progress"}
                                       /\ ~(task.do_not_start_before # NoTime
                                            /\ task.do_not_start_before > now),
         urgency_score             |-> UrgencyScore(task, now),
         deterministic_bucket_id   |-> bucket,
         deterministic_bucket_rank |-> bucket_rank(bucket),
         model_score               |-> model.model_score,
         model_confidence          |-> model.model_confidence,
         personalization_applied   |-> FALSE,
         personalization_policy    |-> "deterministic_only"]

\* Lexicographic order on the triples used as sort keys
KeyLess(a, b) ==
    \/ a[1] < b[1]
    \/ a[1] = b[1] /\ a[2] < b[2]
    \/ a[1] = b[1] /\ a[2] = b[2] /\ a[3] < b[3]

\* (C14 mutant) the key with the urgency score ascending
_deterministic_sort_key_UrgencyAscending(item) ==
    <<item.deterministic_bucket_rank, item.urgency_score, item.updated_at>>

_deterministic_sort_key(item) ==
    <<item.deterministic_bucket_rank, -item.urgency_score, item.updated_at>>

ModelSortKey(item) ==
    <<-(IF item.model_score = NoScore THEN 0 ELSE item.model_score),
      -item.urgency_score, item.updated_at>>

\* sorted(items, key=...): stable, so an item goes after the items whose key
\* is not greater than its own.  Entries are [key, item] pairs.
RECURSIVE InsertByKey(_, _)
InsertByKey(sortedEntries, entry) ==
    IF sortedEntries = <<>> THEN <<entry>>
    ELSE IF KeyLess(entry.key, Head(sortedEntries).key)
         THEN <<entry>> \o sortedEntries
         ELSE <<Head(sortedEntries)>> \o InsertByKey(Tail(sortedEntries), entry)

RECURSIVE SortEntries(_)
SortEntries(entries) ==
    IF entries = <<>> THEN <<>>
    ELSE InsertByKey(SortEntries(SubSeq(entries, 1, Len(entries) - 1)),
                     entries[Len(entries)])

\* keys[i] is the key of items[i]
SortedByKey(items, keys) ==
    LET entries == SortEntries([i \in 1..Len(items) |-> [key |-> keys[i], item |-> items[i]]])
    IN  [i \in 1..Len(items) |-> entries[i].item]

DeterministicKeys(items) == [i \in 1..Len(items) |-> _deterministic_sort_key(items[i])]

ModelKeys(items) == [i \in 1..Len(items) |-> ModelSortKey(items[i])]

\* (C7 mutant) a confidence equal to the threshold left out
IsEligible_AboveThreshold(item, threshold) ==
    /\ item.model_score # NoScore
    /\ (IF item.model_confidence = NoScore THEN 0 ELSE item.model_confidence) > threshold

\* The eligibility test of _reorder_bucket_with_model
IsEligible(item, threshold) ==
    /\ item.model_score # NoScore
    /\ (IF item.model_confidence = NoScore THEN 0 ELSE item.model_confidence) >= threshold

IdsOf(items) == [i \in 1..Len(items) |-> items[i].task_id]

_reorder_bucket_with_model_AlwaysApplied(bucket_items, threshold) ==
    LET Elig(item)       == IsEligible(item, threshold)
        eligible         == SelectSeq(bucket_items, Elig)
        ordered_eligible == SortedByKey(eligible, ModelKeys(eligible))
        eligible_set     == {eligible[i].task_id : i \in 1..Len(eligible)}
        Slot(i)          == Cardinality({j \in 1..i : bucket_items[j].task_id \in eligible_set})
    IN  [i \in 1..Len(bucket_items) |->
            IF bucket_items[i].task_id \in eligible_set
            THEN [ordered_eligible[Slot(i)] EXCEPT !.personalization_applied = TRUE]
            ELSE bucket_items[i]]

\* _reorder_bucket_with_model
_reorder_bucket_with_model(bucket_items, threshold) ==
    LET Elig(item)       == IsEligible(item, threshold)
        eligible         == SelectSeq(bucket_items, Elig)
        ordered_eligible == SortedByKey(eligible, ModelKeys(eligible))
        eligible_set     == {eligible[i].task_id : i \in 1..Len(eligible)}
        Slot(i)          == Cardinality({j \in 1..i : bucket_items[j].task_id \in eligible_set})
    IN  IF Len(eligible) < 2 THEN bucket_items
        ELSE IF IdsOf(eligible) = IdsOf(ordered_eligible) THEN bucket_items
        ELSE [i \in 1..Len(bucket_items) |->
                 IF bucket_items[i].task_id \in eligible_set
                 THEN [ordered_eligible[Slot(i)] EXCEPT !.personalization_applied = TRUE]
                 ELSE bucket_items[i]]

RECURSIVE MergeBuckets(_, _, _)
\* the buckets in rank order, each reordered, one after the other
MergeBuckets(deterministic, threshold, rank) ==
    IF rank > 5 THEN <<>>
    ELSE LET InBucket(item) == item.deterministic_bucket_rank = rank
         IN  _reorder_bucket_with_model(SelectSeq(deterministic, InBucket), threshold)
             \o MergeBuckets(deterministic, threshold, rank + 1)

\* The deterministic order, every candidate stamped with the configured policy
DeterministicOrder(items, enable_bounded_personalization) ==
    LET deterministic == SortedByKey(items, DeterministicKeys(items))
    IN  [i \in 1..Len(deterministic) |->
            [deterministic[i] EXCEPT
                !.personalization_applied = FALSE,
                !.personalization_policy =
                    IF enable_bounded_personalization THEN "bounded_in_bucket"
                    ELSE "deterministic_only"]]

\* (C6 mutant) the whole queue reordered as if it were one bucket
_sort_without_buckets(items, enable_bounded_personalization, threshold) ==
    LET deterministic == DeterministicOrder(items, enable_bounded_personalization)
    IN  IF ~enable_bounded_personalization THEN deterministic
        ELSE _reorder_bucket_with_model(deterministic, threshold)

\* _sort_with_optional_personalization
_sort_with_optional_personalization(items, enable_bounded_personalization, threshold) ==
    LET deterministic == DeterministicOrder(items, enable_bounded_personalization)
    IN  IF ~enable_bounded_personalization THEN deterministic
        ELSE MergeBuckets(deterministic, threshold, 0)

----------------------------------------------------------------------------
(* get_today_attention, one step per await: the query, a call of _score_task
   per task, then the sort, the truncation and the queue event. *)

MaxAttnTasks == 3

\* datetime.utcnow() at the start of the request, in hours
AttnNow == 1000

AttentionServiceMetadata == [service |-> "attention_service"]

\* SELECT * FROM tasks ORDER BY updated_at DESC: rows with the same
\* updated_at come in an order the query does not fix
get_tasks(tbl) ==
    {rows \in [1..Cardinality(DOMAIN tbl) -> {tbl[i] : i \in DOMAIN tbl}] :
        /\ \A i \in DOMAIN tbl : \E k \in DOMAIN rows : rows[k] = tbl[i]
        /\ \A k \in DOMAIN rows : \A m \in DOMAIN rows :
              k < m => rows[k].updated_at >= rows[m].updated_at}

\* AttentionCandidate(...) of _record_queue
AttentionCandidate(item) ==
    [task_id                   |-> item.task_id,
     urgency_score             |-> item.urgency_score,
     deterministic_bucket_rank |-> item.deterministic_bucket_rank,
     model_score               |-> item.model_score,
     model_confidence          |-> item.model_confidence,
     personalization_applied   |-> item.personalization_applied,
     personalization_policy    |-> item.personalization_policy]

\* _record_queue: the line of the AttentionScoringComputedEvent
QueueLine(event_id, now, queue_name, items) ==
    SerializeEvent(event_id, "attention_scoring_computed", now, AttentionServiceMetadata,
                   [queue_name |-> queue_name,
                    candidates |-> [i \in 1..Len(items) |-> AttentionCandidate(items[i])]])

\* The lines _score_task appends: the feature snapshot, then the model score
\* when the ranker returned one
ScoreLines(candidate, uuid, now, enable_shadow_ranker, outcome) ==
    <<SerializeEvent(uuid, "feature_snapshot_recorded", now, AttentionServiceMetadata,
                     [candidate_id |-> candidate.task_id,
                      deterministic_bucket_rank |-> candidate.deterministic_bucket_rank])>>
    \o (IF enable_shadow_ranker /\ ~outcome.raised
        THEN <<SerializeEvent(uuid + 1, "model_score_recorded", now,
                              [service |-> "attention_service", mode |-> "shadow"],
                              [candidate_id |-> candidate.task_id,
                               score |-> outcome.score,
                               confidence |-> outcome.confidence])>>
        ELSE <<>>)

\* The dict a list holds is the one the sort mutated
AfterSort(item, sortedItems) ==
    IF \E i \in 1..Len(sortedItems) : sortedItems[i].task_id = item.task_id
    THEN LET i == CHOOSE i \in 1..Len(sortedItems) : sortedItems[i].task_id = item.task_id
         IN  sortedItems[i]
    ELSE item

IsActionable(item) == item.is_actionable

IsStale(item) == item.is_stale

IsDue72h(item) ==
    /\ item.due_at # NoTime
    /\ 0 <= item.due_at - AttnNow
    /\ item.due_at - AttnNow <= 72
    /\ item.status \notin {"done", "cancelled"}

DueAtKey(item) == <<item.due_at, 0, 0>>

UpdatedAtKey(item) == <<item.updated_at, 0, 0>>

NoCandidate == [task_id |-> GhostId]

\* now = datetime.utcnow(); tasks = await self.query_service.get_tasks()
AttnStart ==
    /\ attn.pc = "idle"
    /\ \E rows \in get_tasks(tasks) :
          attn' = [attn EXCEPT !.pc = "scoring", !.now = clock, !.pending = rows]
    /\ UNCHANGED <<tasks, objects, log, clock, nextId, last, projection_metadata, env, pc, files>>

\* scored = [await self._score_task(task, now) for task in tasks], one task
AttnScoreTask(outcome) ==
    /\ attn.pc = "scoring"
    /\ attn.pending # <<>>
    /\ LET task      == Head(attn.pending)
           candidate == _score_task(task, attn.now, attn.enable_shadow_ranker, outcome)
           lines     == ScoreLines(candidate, nextId, attn.now, attn.enable_shadow_ranker, outcome)
       IN  /\ log' = log \o lines
           /\ nextId' = nextId + Len(lines)
           /\ attn' = [attn EXCEPT
                          !.pending = Tail(attn.pending),
                          !.scored  = Append(attn.scored, candidate),
                          !.raised  = IF attn.enable_shadow_ranker /\ outcome.raised
                                      THEN attn.raised \cup {task.task_id}
                                      ELSE attn.raised]
    /\ UNCHANGED <<tasks, objects, clock, last, projection_metadata, env, pc, files>>

\* The rest of get_today_attention, from the sort to the returned dict
AttnFinish(limit) ==
    /\ attn.pc = "scoring"
    /\ attn.pending = <<>>
    /\ LET actionable == _sort_with_optional_personalization(
                             SelectSeq(attn.scored, IsActionable),
                             attn.enable_bounded_personalization,
                             attn.shadow_confidence_threshold)
           scored     == [i \in 1..Len(attn.scored) |-> AfterSort(attn.scored[i], actionable)]
           due_items  == SelectSeq(scored, IsDue72h)
           due_72h    == SortedByKey(due_items,
                                     [i \in 1..Len(due_items) |-> DueAtKey(due_items[i])])
           old_items  == SelectSeq(scored, IsStale)
           stale      == SortedByKey(old_items,
                                     [i \in 1..Len(old_items) |-> UpdatedAtKey(old_items[i])])
           top_actionable == SubSeq(actionable, 1,
                                    IF limit < Len(actionable) THEN limit ELSE Len(actionable))
       IN  /\ log' = Append(log, QueueLine(nextId, attn.now, "today", top_actionable))
           /\ nextId' = nextId + 1
           /\ attn' = [attn EXCEPT
                          !.pc = "done",
                          !.limit = limit,
                          !.actionable = actionable,
                          !.result = [top_actionable |-> top_actionable,
                                      due_next_72h   |-> due_72h,
                                      stale_cleanup_candidate |->
                                          IF stale # <<>> THEN stale[1] ELSE NoCandidate]]
           /\ last' = Response("today", GhostId, "ok")
    /\ UNCHANGED <<tasks, objects, clock, projection_metadata, env, pc, files>>

\* A task row as the task service leaves it: created with a priority (and a
\* due date) some hours ago, possibly patched to a status since
AttnTaskRow(task_id, shape) ==
    [NewTask(task_id, AttnNow - shape.age) EXCEPT
        !.title    = "Buy milk",
        !.source   = "api",
        !.priority = shape.priority,
        !.status   = shape.status,
        !.due_at   = shape.due_at,
        !.do_not_start_before = shape.do_not_start_before]

AttnShape(priority, status, age, due_at) ==
    [priority |-> priority, status |-> status, age |-> age, due_at |-> due_at,
     do_not_start_before |-> NoTime]

\* The rows a table is drawn from; the row is known by its place in the list
AttnTaskShapes ==
    <<AttnShape("p1", "open", 1, NoTime),
      AttnShape("p1", "open", 1, NoTime),
      AttnShape("p1", "open", 2, NoTime),
      AttnShape("p1", "open", 80, NoTime),
      AttnShape("p2", "open", 1, NoTime),
      AttnShape("p0", "open", 200, AttnNow + 2),
      AttnShape("p2", "done", 4, NoTime),
      [AttnShape("p0", "open", 3, NoTime) EXCEPT !.do_not_start_before = AttnNow + 24]>>

\* The tasks tables of MaxAttnTasks of those rows
AttnTaskTables ==
    {[i \in ids |-> AttnTaskRow(i, AttnTaskShapes[i])] :
        ids \in {x \in SUBSET (1..Len(AttnTaskShapes)) : Cardinality(x) = MaxAttnTasks}}

RankerOutcomes ==
    {RankerRaised, RankerResult(95, 60), RankerResult(20, 90), RankerResult(95, 50)}

AttnLimits == {1, 5}

\* AttentionService(...) as the route builds it from the configuration
AttnConfigs ==
    {[enable_shadow_ranker |-> s, enable_bounded_personalization |-> b,
      shadow_confidence_threshold |-> 60] : s \in BOOLEAN, b \in BOOLEAN}

InitAttn ==
    /\ tasks \in AttnTaskTables
    /\ objects = <<>>
    /\ log = <<>>
    /\ clock = AttnNow
    /\ nextId = Len(AttnTaskShapes) + 1
    /\ last = Response("init", GhostId, "ok")
    /\ projection_metadata = [last_rebuild_timestamp |-> NoTime,
                              last_event_id_processed |-> GhostId]
    /\ \E config \in AttnConfigs :
          attn = [pc |-> "idle", now |-> NoTime, limit |-> 0, pending |-> <<>>, scored |-> <<>>,
                  raised |-> {}, actionable |-> <<>>,
                  result |-> [top_actionable |-> <<>>, due_next_72h |-> <<>>,
                              stale_cleanup_candidate |-> NoCandidate],
                  enable_shadow_ranker |-> config.enable_shadow_ranker,
                  enable_bounded_personalization |-> config.enable_bounded_personalization,
                  shadow_confidence_threshold |-> config.shadow_confidence_threshold]
    /\ env = DefaultEnv
    /\ pc = NoProcess
    /\ files = <<>>

AttnScore == \E outcome \in RankerOutcomes : AttnScoreTask(outcome)

AttnToday == \E limit \in AttnLimits : AttnFinish(limit)

NextAttn ==
    \/ AttnStart
    \/ AttnScore
    \/ AttnToday

SpecAttn == InitAttn /\ [][NextAttn]_vars

----------------------------------------------------------------------------
(* _determine_bucket on its own: one call, for every status and priority and
   for due dates and start gates around the hour of the call *)

MaxBucketHours == 73

TaskStatuses == {"open", "blocked", "in_progress", "done", "cancelled", "snoozed"}

TaskPriorities == {"p0", "p1", "p2", "p3"}

\* due_at: none, overdue, or up to MaxBucketHours hours ahead
BucketDueAts == {NoTime} \cup {AttnNow + d : d \in (-2)..MaxBucketHours}

\* do_not_start_before: none, passed, now, or an hour ahead
BucketStartGates == {NoTime, AttnNow - 1, AttnNow, AttnNow + 1}

InitBucket ==
    /\ tasks = <<>>
    /\ objects = <<>>
    /\ log = <<>>
    /\ clock = AttnNow
    /\ nextId = 1
    /\ last = Response("init", GhostId, "ok")
    /\ projection_metadata = [last_rebuild_timestamp |-> NoTime,
                              last_event_id_processed |-> GhostId]
    /\ \E status \in TaskStatuses, priority \in TaskPriorities,
          due_at \in BucketDueAts, do_not_start_before \in BucketStartGates :
          attn = [pc |-> "call", status |-> status, priority |-> priority,
                  due_at |-> due_at, do_not_start_before |-> do_not_start_before,
                  now |-> clock, bucket |-> "None"]
    /\ env = DefaultEnv
    /\ pc = NoProcess
    /\ files = <<>>

\* The call of _determine_bucket in _score_task
DetermineBucket ==
    /\ attn.pc = "call"
    /\ attn' = [attn EXCEPT
                   !.pc = "returned",
                   !.bucket = _determine_bucket(attn.status, attn.priority, attn.due_at,
                                                attn.do_not_start_before, attn.now)]
    /\ UNCHANGED <<tasks, objects, log, clock, nextId, last, projection_metadata,
                   env, pc, files>>

NextBucket == DetermineBucket

SpecBucket == InitBucket /\ [][NextBucket]_vars

----------------------------------------------------------------------------
(* suggest_dependencies (services/task/service.py) over a table of tasks with
   projects, labels and dependencies *)

MaxQueueTasks == 4

\* The successors of a node in the blocked_by graph
Neighbors(graph, node) == IF node \in DOMAIN graph THEN graph[node] ELSE {}

\* The nodes visit() can reach from the nodes of reached
RECURSIVE Visited(_, _)
Visited(graph, reached) ==
    LET next == reached \cup UNION {Neighbors(graph, node) : node \in reached}
    IN  IF next = reached THEN reached ELSE Visited(graph, next)

\* (C33 mutant) only the dependency's own blocked_by looked at
_would_create_cycle_DirectOnly(tbl, task_id, dependency_id) ==
    \/ dependency_id = task_id
    \/ dependency_id \in DOMAIN tbl /\ task_id \in tbl[dependency_id].blocked_by

\* _would_create_cycle: the blocked_by graph of the table with the edge
\* task_id -> dependency_id added; true when the depth-first visit from
\* task_id comes back to a node still on its stack, that is when a node
\* reachable from task_id lies on a cycle
_would_create_cycle(tbl, task_id, dependency_id) ==
    LET graph == (task_id :> ((IF task_id \in DOMAIN tbl THEN tbl[task_id].blocked_by ELSE {})
                              \cup {dependency_id}))
                 @@ [i \in DOMAIN tbl |-> tbl[i].blocked_by]
    IN  \E node \in Visited(graph, {task_id}) :
            node \in Visited(graph, Neighbors(graph, node))

\* The score suggest_dependencies gives the candidate other for the task
DependencyScore(task, other) ==
    (IF task.project # "None" /\ task.project = other.project THEN 3 ELSE 0)
    + (IF \E i \in DOMAIN task.labels : InList(task.labels[i], other.labels) THEN 2 ELSE 0)
    + (IF other.priority \in {"p0", "p1"} THEN 1 ELSE 0)

\* suggest_dependencies: the suggestions returned, for the rows all_tasks that
\* get_tasks gave
suggest_dependencies(tbl, all_tasks, task_id, limit) ==
    LET task == get_task_by_id(tbl, task_id)
        Kept(other) ==
            /\ other.task_id # task_id
            /\ other.status \notin {"done", "cancelled"}
            /\ ~_would_create_cycle(tbl, task_id, other.task_id)
            /\ DependencyScore(task, other) > 0
        candidates == SelectSeq(all_tasks, Kept)
        sorted == SortedByKey(candidates,
                      [i \in 1..Len(candidates) |->
                          <<-DependencyScore(task, candidates[i]), 0, 0>>])
        ordered == SubSeq(sorted, 1, IF limit < Len(sorted) THEN limit ELSE Len(sorted))
    IN  [i \in 1..Len(ordered) |->
            [suggestion_id   |-> <<task_id, "dependency", ordered[i].task_id>>,
             task_id         |-> task_id,
             suggestion_type |-> "dependency",
             payload         |-> [kind |-> "dependency", blocked_by |-> {ordered[i].task_id}]]]

\* _record_suggestion_shown for each suggestion: the SuggestionShownEvent, then
\* the feature snapshot of the task
ShownLines(suggestions, uuid, now) ==
    [k \in 1..(2 * Len(suggestions)) |->
        LET suggestion == suggestions[(k + 1) \div 2]
        IN  IF k % 2 = 1
            THEN SerializeEvent(uuid + k - 1, "suggestion_shown", now, TaskServiceMetadata,
                     [task_id            |-> suggestion.task_id,
                      suggestion_id      |-> suggestion.suggestion_id,
                      suggestion_type    |-> suggestion.suggestion_type,
                      suggestion_payload |-> suggestion.payload])
            ELSE SerializeEvent(uuid + k - 1, "feature_snapshot_recorded", now,
                     TaskServiceMetadata,
                     [candidate_id |-> suggestion.suggestion_id,
                      context      |-> [task_id |-> suggestion.task_id]])]

\* What the two routes answered
QueueResponse(op, id, limit, outcome, items) ==
    [op |-> op, id |-> id, limit |-> limit, outcome |-> outcome, items |-> items]

\* POST /{task_id}/suggest-dependencies
SuggestDependencies(task_id, limit) ==
    /\ last.op = "init"
    /\ IF task_id \notin DOMAIN tasks
       THEN /\ last' = QueueResponse("suggest_dependencies", task_id, limit, "not_found", <<>>)
            /\ UNCHANGED <<log, nextId>>
       ELSE \E all_tasks \in get_tasks(tasks) :
               LET suggestions == suggest_dependencies(tasks, all_tasks, task_id, limit)
                   lines       == ShownLines(suggestions, nextId, clock)
               IN  /\ log' = log \o lines
                   /\ nextId' = nextId + Len(lines)
                   /\ last' = QueueResponse("suggest_dependencies", task_id, limit, "ok",
                                            suggestions)
    /\ clock' = clock + 1
    /\ UNCHANGED <<tasks, objects, projection_metadata, attn, env, pc, files>>

\* SELECT * FROM tasks WHERE status NOT IN ('done', 'cancelled') ORDER BY
\* updated_at ASC: rows with the same updated_at come in an order the query
\* does not fix
ReviewRows(tbl) ==
    LET ids == {i \in DOMAIN tbl : tbl[i].status \notin {"done", "cancelled"}}
    IN  {rows \in [1..Cardinality(ids) -> {tbl[i] : i \in ids}] :
            /\ \A i \in ids : \E k \in DOMAIN rows : rows[k] = tbl[i]
            /\ \A k \in DOMAIN rows : \A m \in DOMAIN rows :
                  k < m => rows[k].updated_at <= rows[m].updated_at}

priority_rank(priority) ==
    CASE priority = "p0" -> 0
      [] priority = "p1" -> 1
      [] priority = "p2" -> 2
      [] priority = "p3" -> 3
      [] OTHER -> 99

\* sort_key of get_review_queue; its first two components, each 0 or 1, are
\* the first number of the triple
ReviewSortKey(task, now) ==
    <<2 * (IF InList(TASK_LABEL_NEEDS_REVIEW, task.labels) THEN 0 ELSE 1)
        + (IF _is_task_stale(task, now) THEN 0 ELSE 1),
      priority_rank(task.priority),
      task.updated_at>>

\* get_review_queue, for the rows the SELECT gave
get_review_queue(rows, now, limit) ==
    LET ordered == SortedByKey(rows, [i \in 1..Len(rows) |-> ReviewSortKey(rows[i], now)])
        flagged == [i \in 1..Len(ordered) |->
                       [task     |-> ordered[i],
                        is_stale |-> _is_task_stale(ordered[i], now)]]
    IN  SubSeq(flagged, 1, IF limit < Len(flagged) THEN limit ELSE Len(flagged))

\* GET /review/queue
ReviewQueue(limit) ==
    /\ last.op = "init"
    /\ \E rows \in ReviewRows(tasks) :
          last' = QueueResponse("review_queue", GhostId, limit, "ok",
                                get_review_queue(rows, clock, limit))
    /\ clock' = clock + 1
    /\ UNCHANGED <<tasks, objects, log, nextId, projection_metadata, attn, env, pc, files>>

\* A task row as the task service leaves it after ingest, patch and link
QueueTaskRow(task_id, shape) ==
    [NewTask(task_id, AttnNow - shape.age) EXCEPT
        !.title      = "Buy milk",
        !.priority   = shape.priority,
        !.status     = shape.status,
        !.due_at     = shape.due_at,
        !.project    = shape.project,
        !.labels     = shape.labels,
        !.blocked_by = shape.blocked_by]

QueueShape(priority, status, age, due_at, project, labels, blocked_by) ==
    [priority |-> priority, status |-> status, age |-> age, due_at |-> due_at,
     project |-> project, labels |-> labels, blocked_by |-> blocked_by]

\* The rows a table is drawn from; the row is known by its place in the list
QueueTaskShapes ==
    <<QueueShape("p2", "open", 1, NoTime, "Home", <<"errand">>, {}),
      QueueShape("p2", "open", 2, NoTime, "Home", <<>>, {1}),
      QueueShape("p0", "open", 3, NoTime, "None", <<"errand">>, {2}),
      QueueShape("p1", "open", 200, NoTime, "None", <<>>, {}),
      QueueShape("p3", "open", 4, NoTime, "None", <<TASK_LABEL_NEEDS_REVIEW>>, {}),
      QueueShape("p0", "done", 5, NoTime, "Home", <<"errand">>, {}),
      QueueShape("p2", "open", 6, AttnNow - 1, "None", <<>>, {}),
      QueueShape("p3", "blocked", 1, NoTime, "Home", <<"errand">>, {4}),
      QueueShape("p3", "open", 7 * 24, NoTime, "None", <<>>, {})>>

QueueTaskTables ==
    {[i \in ids |-> QueueTaskRow(i, QueueTaskShapes[i])] :
        ids \in {x \in SUBSET (1..Len(QueueTaskShapes)) : Cardinality(x) = MaxQueueTasks}}

QueueLimits == {1, 2, 5}

InitQueue ==
    /\ tasks \in QueueTaskTables
    /\ objects = <<>>
    /\ log = <<>>
    /\ clock = AttnNow
    /\ nextId = Len(QueueTaskShapes) + 1
    /\ last = Response("init", GhostId, "ok")
    /\ projection_metadata = [last_rebuild_timestamp |-> NoTime,
                              last_event_id_processed |-> GhostId]
    /\ attn = AttnIdle
    /\ env = DefaultEnv
    /\ pc = NoProcess
    /\ files = <<>>

NextQueue ==
    \/ \E task_id \in TaskIdArgs : \E limit \in QueueLimits : SuggestDependencies(task_id, limit)
    \/ \E limit \in QueueLimits : ReviewQueue(limit)

SpecQueue == InitQueue /\ [][NextQueue]_vars

----------------------------------------------------------------------------
(* Claims about the attention service *)

\* The ordering with personalization off, for the input of the sort
C6_Input == SelectSeq(attn.scored, IsActionable)

C6_Deterministic == SortedByKey(C6_Input, DeterministicKeys(C6_Input))

\* C6: whatever the scores, the confidences and the threshold, the output of
\* the sort is a permutation of its input, and the bucket rank at each output
\* position is the bucket rank at that position of the deterministic order.
C6_BucketOrderKept ==
    attn.pc = "done" =>
        LET input         == C6_Input
            deterministic == C6_Deterministic
            output        == attn.actionable
        IN  /\ Len(output) = Len(input)
            /\ \A i \in 1..Len(input) :
                  Cardinality({k \in 1..Len(output) :
                                  output[k].task_id = input[i].task_id}) = 1
            /\ \A i \in 1..Len(input) :
                  output[i].deterministic_bucket_rank
                      = deterministic[i].deterministic_bucket_rank

\* Personalization moved a candidate, and the queue spans two buckets
C6_Witness ==
    /\ attn.pc = "done"
    /\ attn.enable_bounded_personalization
    /\ IdsOf(attn.actionable) # IdsOf(C6_Deterministic)
    /\ \E i \in 1..Len(attn.actionable) : \E j \in 1..Len(attn.actionable) :
          attn.actionable[i].deterministic_bucket_rank
              # attn.actionable[j].deterministic_bucket_rank

\* A candidate with a model score and a confidence at or above the threshold
C7_Eligible(item) ==
    /\ item.model_score # NoScore
    /\ item.model_confidence # NoScore
    /\ item.model_confidence >= attn.shadow_confidence_threshold

\* a comes no later than b by (model score desc, urgency desc, updated_at asc)
C7_InModelOrder(a, b) ==
    \/ a.model_score > b.model_score
    \/ a.model_score = b.model_score /\ a.urgency_score > b.urgency_score
    \/ /\ a.model_score = b.model_score
       /\ a.urgency_score = b.urgency_score
       /\ a.updated_at <= b.updated_at

\* C7: with bounded personalization on, the positions the eligible candidates
\* of a bucket hold in the deterministic order are filled with those
\* candidates by model score descending, urgency descending, updated_at
\* ascending, and every other candidate keeps its absolute position.
C7_EligibleReordered ==
    (attn.pc = "done" /\ attn.enable_bounded_personalization) =>
        LET deterministic == C6_Deterministic
            output        == attn.actionable
        IN  \A i \in 1..Len(deterministic) :
                /\ ~C7_Eligible(deterministic[i])
                       => output[i].task_id = deterministic[i].task_id
                /\ C7_Eligible(deterministic[i]) => C7_Eligible(output[i])
                /\ \A j \in 1..Len(deterministic) :
                      (/\ i < j
                       /\ C7_Eligible(output[i])
                       /\ C7_Eligible(output[j])
                       /\ output[i].deterministic_bucket_rank
                              = output[j].deterministic_bucket_rank)
                      => C7_InModelOrder(output[i], output[j])

\* Two eligible candidates of a bucket changed places around one that is not
C7_Witness ==
    /\ attn.pc = "done"
    /\ attn.enable_bounded_personalization
    /\ LET deterministic == C6_Deterministic
           output        == attn.actionable
       IN  \E i \in 1..Len(output) : \E j \in 1..Len(output) : \E k \in 1..Len(output) :
              /\ i < k /\ k < j
              /\ C7_Eligible(output[i])
              /\ C7_Eligible(output[j])
              /\ ~C7_Eligible(output[k])
              /\ output[i].task_id = deterministic[j].task_id
              /\ output[j].task_id = deterministic[i].task_id
              /\ output[k].task_id = deterministic[k].task_id

\* C8: a candidate whose ranker call raised is returned with a null
\* model_score and personalization_policy deterministic_only, with bounded
\* personalization on or off.
C8_FallbackDeterministicOnly ==
    attn.pc = "done" =>
        \A i \in 1..Len(attn.result.top_actionable) :
            attn.result.top_actionable[i].task_id \in attn.raised =>
                /\ attn.result.top_actionable[i].model_score = NoScore
                /\ attn.result.top_actionable[i].personalization_policy = "deterministic_only"

----------------------------------------------------------------------------
(* Lab control plane (services/api/routes/lab.py).  Thresholds are in
   hundredths, the estimated quality delta in ten-thousandths. *)

MaxLabOps == 4

LabApiMetadata == [service |-> "lab_api"]

\* Config.from_env(): the defaults, and the personalization mode the
\* environment sets (config.ATTENTION_PERSONALIZATION_MODE)
Config ==
    [ATTENTION_PERSONALIZATION_MODE            |-> env.ATTENTION_PERSONALIZATION_MODE,
     SHADOW_RANKER_ENABLED                     |-> TRUE,
     SHADOW_RANKER_CONFIDENCE_THRESHOLD        |-> 60,
     ATTENTION_BOUNDED_PERSONALIZATION_ENABLED |-> FALSE]

LabState(mode, shadow_confidence_threshold) ==
    [mode |-> mode, shadow_confidence_threshold |-> shadow_confidence_threshold]

\* The state both routes fall back to
RollbackState == LabState("deterministic", 60)

_base_config_snapshot(config) ==
    [mode                            |-> config.ATTENTION_PERSONALIZATION_MODE,
     shadow_ranker_enabled           |-> config.SHADOW_RANKER_ENABLED,
     bounded_personalization_enabled |-> config.ATTENTION_BOUNDED_PERSONALIZATION_ENABLED,
     shadow_confidence_threshold     |-> config.SHADOW_RANKER_CONFIDENCE_THRESHOLD]

_to_snapshot(state) ==
    [mode                            |-> state.mode,
     shadow_ranker_enabled           |-> state.mode \in {"shadow", "bounded"},
     bounded_personalization_enabled |-> state.mode = "bounded",
     shadow_confidence_threshold     |-> state.shadow_confidence_threshold]

\* max(events, key=lambda item: item.timestamp): the first of the latest
LatestEvent(events) ==
    LET i == CHOOSE i \in 1..Len(events) :
                 /\ \A k \in 1..Len(events) : events[k].timestamp <= events[i].timestamp
                 /\ \A k \in 1..(i - 1) : events[k].timestamp < events[i].timestamp
    IN  events[i]

\* _effective_config: the "after" of the latest control change over the base,
\* when that event is a LabControlChangedEvent
_effective_config(lines, config) ==
    LET base   == _base_config_snapshot(config)
        events == stream_events(lines, {"lab_control_changed"})
    IN  IF events = <<>> THEN base
        ELSE IF LatestEvent(events).cls # "LabControlChangedEvent" THEN base
        ELSE _to_snapshot(LatestEvent(events).data.after)

SnapshotState(snapshot) ==
    LabState(snapshot.mode, snapshot.shadow_confidence_threshold)

\* LabControlChangedEvent(...).model_dump_json()
ControlChangedLine(event_id, now, metadata, rationale, before, after, rollback_to) ==
    SerializeEvent(event_id, "lab_control_changed", now, metadata,
                   [actor |-> "operator", rationale |-> rationale,
                    before |-> before, after |-> after, rollback_to |-> rollback_to])

\* LabExperimentAppliedEvent(...).model_dump_json()
ExperimentAppliedLine(event_id, now, run_id, action, applied, reason) ==
    SerializeEvent(event_id, "lab_experiment_applied", now, LabApiMetadata,
                   [run_id |-> run_id, actor |-> "operator", action |-> action,
                    applied |-> applied, reason |-> reason])

\* An HTTPException carries no configuration
NoSnapshot == [mode |-> "None"]

\* What a route answered: the status code, the body (or the detail of the
\* error), and the run and action the request named
LabResponse(op, status_code, status, run_id, action, apply_allowed, effective) ==
    [op |-> op, status_code |-> status_code, status |-> status, run_id |-> run_id,
     action |-> action, apply_allowed |-> apply_allowed, effective_config |-> effective]

\* POST /controls
lab_update_controls(request) ==
    /\ clock < AttnNow + MaxLabOps
    /\ LET before == _effective_config(log, Config)
           after  == LabState(request.mode, request.shadow_confidence_threshold)
       IN  /\ log' = Append(log, ControlChangedLine(nextId, clock, LabApiMetadata, "tune",
                                                    SnapshotState(before), after, RollbackState))
           /\ last' = LabResponse("lab_update_controls", 200, "updated", GhostId, "None", TRUE,
                                  _to_snapshot(after))
    /\ nextId' = nextId + 1
    /\ clock' = clock + 1
    /\ UNCHANGED <<tasks, objects, projection_metadata, attn, env, pc, files>>

\* POST /rollback
lab_rollback ==
    /\ clock < AttnNow + MaxLabOps
    /\ LET before == _effective_config(log, Config)
       IN  /\ log' = Append(log, ControlChangedLine(nextId, clock,
                                    [service |-> "lab_api", action |-> "rollback"], "undo",
                                    SnapshotState(before), RollbackState, RollbackState))
           /\ last' = LabResponse("lab_rollback", 200, "rolled_back", GhostId, "None", TRUE,
                                  _to_snapshot(RollbackState))
    /\ nextId' = nextId + 1
    /\ clock' = clock + 1
    /\ UNCHANGED <<tasks, objects, projection_metadata, attn, env, pc, files>>

\* (C9 mutant) the floor itself treated as below the floor
apply_allowed_AboveFloor(candidate_shadow_confidence_threshold) ==
    candidate_shadow_confidence_threshold > 40

\* apply_allowed = request.candidate_shadow_confidence_threshold >= 0.4
apply_allowed(candidate_shadow_confidence_threshold) ==
    candidate_shadow_confidence_threshold >= 40

\* The estimated attention quality delta of a candidate
Improvement(candidate_mode, candidate_shadow_confidence_threshold) ==
    (CASE candidate_mode = "bounded" -> 1500
       [] candidate_mode = "shadow"  -> 700
       [] OTHER -> 0)
    + (IF 75 - candidate_shadow_confidence_threshold > 0
       THEN (75 - candidate_shadow_confidence_threshold) * 10
       ELSE 0)

\* POST /experiments/run
run_experiment(request) ==
    /\ clock < AttnNow + MaxLabOps
    /\ LET baseline  == _effective_config(log, Config)
           candidate == LabState(request.candidate_mode,
                                 request.candidate_shadow_confidence_threshold)
           allowed   == apply_allowed(request.candidate_shadow_confidence_threshold)
           run_id    == nextId
           result    == [comparison |->
                            [estimated_attention_quality_delta |->
                                 Improvement(request.candidate_mode,
                                             request.candidate_shadow_confidence_threshold),
                             safety_gate |-> IF allowed THEN "pass" ELSE "blocked"],
                         apply_allowed |-> allowed,
                         apply_block_reason |->
                            IF allowed THEN "None"
                            ELSE "candidate_shadow_confidence_threshold below safety floor"]
       IN  /\ log' = Append(log, SerializeEvent(nextId + 1, "lab_experiment_run", clock,
                                                LabApiMetadata,
                                                [run_id |-> run_id, actor |-> "operator",
                                                 candidate_config |-> candidate,
                                                 baseline_config |-> SnapshotState(baseline),
                                                 result |-> result]))
           /\ last' = LabResponse("run_experiment", 200, "completed", run_id, "None", allowed,
                                  _to_snapshot(candidate))
    /\ nextId' = nextId + 2
    /\ clock' = clock + 1
    /\ UNCHANGED <<tasks, objects, projection_metadata, attn, env, pc, files>>

\* next((item for item in run_events if isinstance(item, LabExperimentRunEvent)
\*       and item.run_id == run_id), None)
FindRun(lines, run_id) ==
    LET run_events == stream_events(lines, {"lab_experiment_run"})
        hits == {i \in 1..Len(run_events) :
                    /\ run_events[i].cls = "LabExperimentRunEvent"
                    /\ run_events[i].data.run_id = run_id}
    IN  IF hits = {} THEN NoEvent
        ELSE run_events[CHOOSE i \in hits : \A k \in hits : i <= k]

\* POST /experiments/{run_id}/apply
apply_experiment(run_id, action) ==
    /\ clock < AttnNow + MaxLabOps
    /\ LET target == FindRun(log, run_id)
           before == _effective_config(log, Config)
           after_state ==
               CASE action = "apply"    -> target.data.candidate_config
                 [] action = "rollback" -> RollbackState
                 [] OTHER               -> SnapshotState(before)
           status_text ==
               CASE action = "apply"    -> "updated"
                 [] action = "rollback" -> "rolled_back"
                 [] OTHER               -> "no_op"
       IN  IF target = NoEvent
           THEN /\ last' = LabResponse("apply_experiment", 404, "Experiment run not found",
                                       run_id, action, FALSE, NoSnapshot)
                /\ UNCHANGED <<log, nextId>>
           ELSE IF action = "apply" /\ ~target.data.result.apply_allowed
           THEN /\ log' = Append(log, ExperimentAppliedLine(nextId, clock, run_id, action, FALSE,
                                                            target.data.result.apply_block_reason))
                /\ nextId' = nextId + 1
                /\ last' = LabResponse("apply_experiment", 409,
                                       target.data.result.apply_block_reason,
                                       run_id, action, FALSE, NoSnapshot)
           ELSE /\ log' = log \o
                       <<ExperimentAppliedLine(nextId, clock, run_id, action,
                                               action # "no_op", "None"),
                         ControlChangedLine(nextId + 1, clock,
                                            [service |-> "lab_api", source |-> "experiment_apply"],
                                            "experiment", SnapshotState(before), after_state,
                                            RollbackState)>>
                /\ nextId' = nextId + 2
                /\ last' = LabResponse("apply_experiment", 200, status_text, run_id, action, TRUE,
                                       _to_snapshot(after_state))
    /\ clock' = clock + 1
    /\ UNCHANGED <<tasks, objects, projection_metadata, attn, env, pc, files>>

LabControlRequests ==
    {[mode |-> "bounded", shadow_confidence_threshold |-> 60],
     [mode |-> "shadow", shadow_confidence_threshold |-> 40]}

LabExperimentRequests ==
    {[candidate_mode |-> m, candidate_shadow_confidence_threshold |-> t] :
        m \in {"deterministic", "shadow", "bounded"}, t \in {39, 40}}

LabApplyActions == {"apply", "rollback", "no_op"}

\* The run ids handed out so far, and one that never was
RunIdArgs ==
    {log[i].data.run_id : i \in {k \in 1..Len(log) : log[k].event_type = "lab_experiment_run"}}
    \cup {GhostId}

\* ATTENTION_PERSONALIZATION_MODE as the deployment sets it
LabEnvs ==
    {[ATTENTION_PERSONALIZATION_MODE |-> m] : m \in {"deterministic", "shadow", "bounded"}}

InitLab ==
    /\ tasks = <<>>
    /\ objects = <<>>
    /\ log = <<>>
    /\ clock = AttnNow
    /\ nextId = 1
    /\ last = Response("init", GhostId, "ok")
    /\ projection_metadata = [last_rebuild_timestamp |-> NoTime,
                              last_event_id_processed |-> GhostId]
    /\ attn = AttnIdle
    /\ env \in LabEnvs
    /\ pc = NoProcess
    /\ files = <<>>

LabUpdateControls == \E request \in LabControlRequests : lab_update_controls(request)

LabRunExperiment == \E request \in LabExperimentRequests : run_experiment(request)

LabApplyExperiment ==
    \E run_id \in RunIdArgs, action \in LabApplyActions : apply_experiment(run_id, action)

NextLab ==
    \/ LabUpdateControls
    \/ lab_rollback
    \/ LabRunExperiment
    \/ LabApplyExperiment

SpecLab == InitLab /\ [][NextLab]_vars

----------------------------------------------------------------------------
(* Claims about the Lab control plane *)

\* The line run_experiment appended last
C9_RunLine == log[Len(log)]

C10_BlockedRuns ==
    {log[i].data.run_id : i \in {k \in 1..Len(log) :
                                    /\ log[k].event_type = "lab_experiment_run"
                                    /\ ~log[k].data.result.apply_allowed}}

C11_ControlChanges == {i \in 1..Len(log) : log[i].event_type = "lab_control_changed"}

\* The baseline overlaid with the "after" of a control change of greatest
\* timestamp; the baseline alone when there is none
C11_Overlay ==
    IF C11_ControlChanges = {}
    THEN {SnapshotState(_base_config_snapshot(Config))}
    ELSE {log[i].data.after :
             i \in {k \in C11_ControlChanges :
                       \A m \in C11_ControlChanges : log[m].timestamp <= log[k].timestamp}}

\* The configuration a lab call read, as the line it appended records it
C11_ConfigRead(line) ==
    IF line.event_type = "lab_control_changed" THEN line.data.before
    ELSE line.data.baseline_config

C12_RolledBack ==
    /\ C11_ControlChanges # {}
    /\ LET i == CHOOSE k \in C11_ControlChanges : \A m \in C11_ControlChanges : m <= k
       IN  /\ "action" \in DOMAIN log[i].metadata
           /\ log[i].metadata.action = "rollback"

----------------------------------------------------------------------------
(* Claims about duplicates, terminal statuses and unknown ids *)

\* The tasks of tbl whose normalised title, body and project are those of task
C13_Group(tbl, task) ==
    {i \in DOMAIN tbl :
        /\ Normalize(tbl[i].title) = Normalize(task.title)
        /\ Normalize(tbl[i].body) = Normalize(task.body)
        /\ Normalize(tbl[i].project) = Normalize(task.project)}

\* The labels asked for, once each, with needs_review at the end when flagged
C13_Labels(request, flagged) ==
    IF flagged /\ ~InList(TASK_LABEL_NEEDS_REVIEW, request.labels)
    THEN Append(DictFromKeys(request.labels), TASK_LABEL_NEEDS_REVIEW)
    ELSE DictFromKeys(request.labels)

\* C13: an ingest that creates a task while a non-terminal task of the same
\* normalised title, body and project exists gives the new task the label
\* needs_review and leaves every other row, labels included, as it was, so
\* that neither task is merged or dropped; when every task of the group is
\* done or cancelled the new task gets the labels of the request and no more.
C13_DuplicateFlagged ==
    [][(last'.op = "ingest" /\ last'.outcome = "created") =>
          LET new   == tasks'[last'.id]
              group == C13_Group(tasks, new)
              live  == {i \in group : tasks[i].status \notin TerminalStatuses}
          IN  /\ last'.id \notin DOMAIN tasks
              /\ DOMAIN tasks' = DOMAIN tasks \cup {last'.id}
              /\ SameRowsExcept(tasks, tasks', {last'.id})
              /\ live # {} => InList(TASK_LABEL_NEEDS_REVIEW, new.labels)
              /\ \E request \in IngestRequests :
                    /\ request.source = new.source
                    /\ request.source_ref = new.source_ref
                    /\ request.title = new.title
                    /\ new.labels = C13_Labels(request, live # {})
    ]_vars

\* a comes no later than b by (bucket rank asc, urgency desc, updated_at asc)
C14_InOrder(a, b) ==
    \/ a.deterministic_bucket_rank < b.deterministic_bucket_rank
    \/ /\ a.deterministic_bucket_rank = b.deterministic_bucket_rank
       /\ a.urgency_score > b.urgency_score
    \/ /\ a.deterministic_bucket_rank = b.deterministic_bucket_rank
       /\ a.urgency_score = b.urgency_score
       /\ a.updated_at <= b.updated_at

\* The tasks that are open or in progress and not gated to a later start
C14_ActionableTasks ==
    {i \in DOMAIN tasks :
        /\ tasks[i].status \in {"open", "in_progress"}
        /\ ~(tasks[i].do_not_start_before # NoTime /\ tasks[i].do_not_start_before > attn.now)}

\* C14: with personalization off, top_actionable holds actionable tasks only,
\* in the order (bucket rank ascending, urgency descending, updated_at
\* ascending); it has limit of them, or all when there are fewer, and none
\* left out comes before one returned; a p0 task due in two hours is in
\* urgent_due_soon and ahead of a p1 task with no due date, which is in
\* ready_high_priority.
C14_TodayDeterministic ==
    (attn.pc = "done" /\ ~attn.enable_bounded_personalization) =>
        LET top      == attn.result.top_actionable
            returned == {top[i].task_id : i \in 1..Len(top)}
            leftOut  == {k \in 1..Len(attn.scored) :
                            /\ attn.scored[k].task_id \in C14_ActionableTasks
                            /\ attn.scored[k].task_id \notin returned}
        IN  /\ returned \subseteq C14_ActionableTasks
            /\ Len(top) = Cardinality(returned)
            /\ Len(top) = IF attn.limit < Cardinality(C14_ActionableTasks)
                          THEN attn.limit ELSE Cardinality(C14_ActionableTasks)
            /\ \A i \in 1..Len(top) : \A j \in 1..Len(top) :
                  i < j => C14_InOrder(top[i], top[j])
            /\ \A i \in 1..Len(top) : \A k \in leftOut :
                  C14_InOrder(top[i], attn.scored[k])
            /\ \A i \in 1..Len(top) :
                  (/\ top[i].priority = "p0"
                   /\ top[i].due_at = attn.now + 2)
                  => /\ top[i].deterministic_bucket_id = "urgent_due_soon"
                     /\ \A j \in 1..Len(top) :
                           (top[j].priority = "p1" /\ top[j].due_at = NoTime)
                           => /\ top[j].deterministic_bucket_id = "ready_high_priority"
                              /\ i < j

\* C14 witness: with personalization off, the table holds an open task gated
\* to a later start, and the limit cut the queue after the p0 task due in two
\* hours, leaving out an actionable p1 task with no due date
C14_Witness ==
    /\ attn.pc = "done"
    /\ ~attn.enable_bounded_personalization
    /\ attn.limit < Cardinality(C14_ActionableTasks)
    /\ \E i \in DOMAIN tasks : tasks[i].status = "open" /\ i \notin C14_ActionableTasks
    /\ Len(attn.result.top_actionable) = attn.limit
    /\ attn.result.top_actionable[1].priority = "p0"
    /\ attn.result.top_actionable[1].due_at = attn.now + 2
    /\ attn.result.top_actionable[1].deterministic_bucket_id = "urgent_due_soon"
    /\ \E i \in C14_ActionableTasks :
          /\ tasks[i].priority = "p1"
          /\ tasks[i].due_at = NoTime
          /\ \A k \in 1..Len(attn.result.top_actionable) :
                attn.result.top_actionable[k].task_id # i

\* The buckets, in the order their rules are tried
C15_Buckets ==
    <<"completed_or_cancelled", "blocked", "deferred_or_gated",
      "urgent_due_soon", "ready_high_priority", "ready_normal">>

\* Whether the rule of the k-th bucket matches the call
C15_Matches(k) ==
    CASE k = 1 -> attn.status \in {"done", "cancelled"}
      [] k = 2 -> attn.status = "blocked"
      [] k = 3 -> \/ attn.status = "snoozed"
                  \/ attn.do_not_start_before # NoTime /\ attn.do_not_start_before > attn.now
      [] k = 4 -> attn.due_at # NoTime /\ attn.due_at <= attn.now + 72
      [] k = 5 -> attn.priority \in {"p0", "p1"}
      [] k = 6 -> TRUE

\* C15: the bucket of a task is that of the first rule that matches, in the
\* order done/cancelled, blocked, snoozed or gated to a later start, due no
\* later than 72 hours from now (overdue included), priority p0/p1, otherwise
\* ready_normal; so every status, priority, due date and start gate gets one
\* bucket, and it is one of the six.
C15_FirstMatchBucket ==
    attn.pc = "returned" =>
        LET first == CHOOSE k \in 1..6 :
                        C15_Matches(k) /\ \A m \in 1..(k - 1) : ~C15_Matches(m)
        IN  /\ attn.bucket = C15_Buckets[first]
            /\ Cardinality({k \in 1..6 : C15_Buckets[k] = attn.bucket}) = 1

\* C15 witness: a snoozed p0 task due in 72 hours, which matches three rules,
\* got the bucket of the first of them
C15_Witness ==
    /\ attn.pc = "returned"
    /\ attn.status = "snoozed"
    /\ attn.priority = "p0"
    /\ attn.due_at = attn.now + 72
    /\ attn.bucket = "deferred_or_gated"

\* C16: a task whose status is done or cancelled keeps that status through
\* every patch, snooze, link, complete and applySuggestion call.
C16_TerminalStatusKept ==
    [][last'.op \in {"patch", "snooze", "link", "complete", "apply_suggestion"} =>
          \A t \in DOMAIN tasks :
              (tasks[t].status \in TerminalStatuses /\ t \in DOMAIN tasks')
              => tasks'[t].status = tasks[t].status
    ]_vars

\* C17: patch, complete, snooze, link, applySuggestion and rejectSuggestion
\* called with a task id that has no row answer not found, append no event
\* and leave the tasks table as it was.
C17_UnknownIdNotFound ==
    [][(/\ last'.op \in {"patch", "complete", "snooze", "link",
                         "apply_suggestion", "reject_suggestion"}
        /\ last'.id \notin DOMAIN tasks)
       => /\ last'.outcome = "not_found"
          /\ log' = log
          /\ tasks' = tasks
          /\ objects' = objects
    ]_vars

\* C17 witness: with tasks in the table and events in the log,
\* applySuggestion with an unknown id has answered not found
C17_Witness ==
    /\ last.op = "apply_suggestion"
    /\ last.outcome = "not_found"
    /\ last.id \notin DOMAIN tasks
    /\ tasks # <<>>
    /\ log # <<>>

----------------------------------------------------------------------------
(* Claims about the event store *)

\* C18: stream_events returns the events in non-decreasing timestamp order,
\* whatever the log holds: several daily files, and events appended in
\* another order than they were stamped.
C18_StreamInTimestampOrder ==
    LET events == stream_events(log, {"message_ingested", "decision_recorded"})
    IN  \A i \in 1..Len(events) : \A j \in 1..Len(events) :
            i < j => events[i].timestamp <= events[j].timestamp

\* C19: every appended event is returned by stream_events and by get_by_id
\* with the id, type, timestamp and metadata it was appended with and with its
\* payload fields intact, whatever its type.
C19_RoundTripKeepsPayload ==
    \A i \in 1..Len(log) :
        LET line     == log[i]
            streamed == stream_events(log, {line.event_type})
            found    == get_by_id(log, line.event_id)
        IN  /\ \E k \in 1..Len(streamed) :
                  /\ streamed[k].event_id = line.event_id
                  /\ streamed[k].event_type = line.event_type
                  /\ streamed[k].timestamp = line.timestamp
                  /\ streamed[k].metadata = line.metadata
                  /\ streamed[k].data = line.data
            /\ found.event_id = line.event_id
            /\ found.event_type = line.event_type
            /\ found.timestamp = line.timestamp
            /\ found.metadata = line.metadata
            /\ found.data = line.data

----------------------------------------------------------------------------
(* Claims about the order of the event and the row *)

\* C20: a task mutation appends its decision event before it writes the
\* projection row: whenever a row is written, the log already holds a
\* decision event whose task_snapshot is that row.
C20_EventBeforeRow ==
    [][\A t \in DOMAIN tasks' :
          (t \notin DOMAIN tasks \/ tasks'[t] # tasks[t])
          => \E i \in 1..Len(log) :
                /\ log[i].event_type = "decision_recorded"
                /\ log[i].data.task_snapshot = tasks'[t]
    ]_vars

----------------------------------------------------------------------------
(* Claims about suggestions, interleaved requests and extraction *)

\* C21: rejectSuggestion on a task that exists appends exactly one event, a
\* suggestion_rejected event naming the task, and leaves every task row
\* (status, labels, blocked_by, updated_at, explanations and the rest) as it was.
C21_RejectOnlyLogs ==
    [][(last'.op = "reject_suggestion" /\ last'.id \in DOMAIN tasks)
       => /\ last'.outcome = "rejected"
          /\ tasks' = tasks
          /\ Len(log') = Len(log) + 1
          /\ SubSeq(log', 1, Len(log)) = log
          /\ log'[Len(log')].event_type = "suggestion_rejected"
          /\ log'[Len(log')].data.task_id = last'.id
    ]_vars

\* C21 witness: a suggestion was rejected on an existing task that had been
\* changed before, and the last line of the log is the rejection
C21_Witness ==
    /\ last.op = "reject_suggestion"
    /\ last.outcome = "rejected"
    /\ last.id \in DOMAIN tasks
    /\ Len(tasks[last.id].explanations) > 1
    /\ log[Len(log)].event_type = "suggestion_rejected"

\* C22: two ingest calls for one (source, source_ref), whatever their
\* interleaving, leave one task row for that pair, and at most one of them
\* reports created=true.
C22_InterleavedIngestOneRow ==
    \A h1 \in Handlers : \A h2 \in Handlers \ {h1} :
        (/\ pc[h1].at = "returned"
         /\ pc[h2].at = "returned"
         /\ pc[h1].request.source = pc[h2].request.source
         /\ pc[h1].request.source_ref = pc[h2].request.source_ref)
        => /\ Cardinality(TasksBySourceRef(tasks, pc[h1].request.source,
                                           pc[h1].request.source_ref)) = 1
           /\ ~(pc[h1].created /\ pc[h2].created)

\* C23: a reader that queries while rebuild_projections is running sees the
\* tables as they were before the rebuild began, never the emptied or the
\* partly replayed ones; and a rebuild that fails on the way leaves the
\* tables with their content of before the rebuild.
C23_RebuildIsolated ==
    [][/\ (pc.rebuild.at = "replaying" /\ pc'.reader # pc.reader)
          => /\ pc'.reader.rows = pc.rebuild.before.tasks
             /\ pc'.reader.objects = pc.rebuild.before.objects
       /\ (pc.rebuild.at = "replaying" /\ pc'.rebuild.at = "failed")
          => /\ tasks' = pc.rebuild.before.tasks
             /\ objects' = pc.rebuild.before.objects
    ]_vars

\* A rebuild failed after replaying part of the log over tables that held
\* rows, and a reader had queried while it was running
C23_Witness ==
    /\ pc.rebuild.at = "failed"
    /\ pc.rebuild.applied > 0
    /\ pc.reader.during
    /\ pc.reader.rows # <<>>
    /\ pc.reader.rows = tasks
    /\ objects # <<>>

\* C24: an extraction triggered for a message whose objects are already in
\* the log appends no object_extracted event and answers
\* no_objects_or_already_extracted.
C24_ExtractedBefore(event_id) ==
    \E k \in DOMAIN log : /\ log[k].event_type = "object_extracted"
                          /\ log[k].data.source_event_id = event_id

C24_SecondExtractionNoOp ==
    [][(last'.op = "extract" /\ C24_ExtractedBefore(last'.id))
       => /\ log' = log
          /\ last'.outcome = "no_objects_or_already_extracted"
    ]_vars

----------------------------------------------------------------------------
(* Claims about the personalization mode and small buckets *)

\* C25: when ATTENTION_PERSONALIZATION_MODE is deterministic, every candidate
\* get_today_attention returns has personalization_policy deterministic_only,
\* personalization_applied false and a null model_score, whatever the
\* shadow-ranker and bounded-personalization flags are.
C25_DeterministicModeWins ==
    (attn.pc = "done" /\ env.ATTENTION_PERSONALIZATION_MODE = "deterministic") =>
        \A i \in 1..Len(attn.result.top_actionable) :
            /\ attn.result.top_actionable[i].personalization_policy = "deterministic_only"
            /\ attn.result.top_actionable[i].personalization_applied = FALSE
            /\ attn.result.top_actionable[i].model_score = NoScore

\* The candidates of items in the bucket of rank rank, in their order
C26_Bucket(items, rank) ==
    LET InBucket(item) == item.deterministic_bucket_rank = rank
    IN  SelectSeq(items, InBucket)

\* C26: with bounded personalization on, a bucket holding fewer than two
\* eligible candidates comes out in its deterministic order, and none of its
\* candidates has personalization_applied true.
C26_SmallBucketUntouched ==
    (attn.pc = "done" /\ attn.enable_bounded_personalization) =>
        \A rank \in 0..5 :
            LET before == C26_Bucket(C6_Deterministic, rank)
                after  == C26_Bucket(attn.actionable, rank)
            IN  Len(SelectSeq(before, C7_Eligible)) < 2
                => /\ IdsOf(after) = IdsOf(before)
                   /\ \A i \in 1..Len(after) : after[i].personalization_applied = FALSE

\* A finished query with bounded personalization on and a bucket of two or
\* more candidates, exactly one of them eligible
C26_Witness ==
    /\ attn.pc = "done"
    /\ attn.enable_bounded_personalization
    /\ \E rank \in 0..5 :
          LET after == C26_Bucket(attn.actionable, rank)
          IN  /\ Len(after) >= 2
              /\ Len(SelectSeq(after, C7_Eligible)) = 1

----------------------------------------------------------------------------
(* Claims about dependencies, snoozed tasks and applied experiments *)

\* The dependency is a task that is done or cancelled
C27_Settled(tbl, dependency) ==
    dependency \in DOMAIN tbl /\ tbl[dependency].status \in {"done", "cancelled"}

\* C27: a link that succeeds sets the status of the task to blocked when one
\* of the tasks of the resulting blocked_by is neither done nor cancelled,
\* and leaves the status as it was when every one of them is done or
\* cancelled.
C27_BlockedOnlyByOpenDependency ==
    [][(last'.op = "link" /\ last'.outcome = "ok")
       => LET task == tasks'[last'.id]
          IN  IF \A dependency \in task.blocked_by : C27_Settled(tasks', dependency)
              THEN task.status = tasks[last'.id].status
              ELSE task.status = "blocked"
    ]_vars

\* The step settles dependency: a task that was neither done nor cancelled is
\* now one or the other
C28_Settles(dependency) ==
    /\ dependency \in DOMAIN tasks
    /\ dependency \in DOMAIN tasks'
    /\ ~C27_Settled(tasks, dependency)
    /\ C27_Settled(tasks', dependency)

\* C28: once the last dependency of a blocked task that was neither done nor
\* cancelled becomes done or cancelled, the task is read as open.
C28_UnblockedWhenDependenciesSettle ==
    [][\A dependency \in DOMAIN tasks : \A task_id \in DOMAIN tasks :
          (/\ C28_Settles(dependency)
           /\ task_id # dependency
           /\ tasks[task_id].status = "blocked"
           /\ dependency \in tasks[task_id].blocked_by
           /\ \A other \in tasks'[task_id].blocked_by : C27_Settled(tasks', other))
          => get_task_by_id(tasks', task_id).status = "open"
    ]_vars

\* The candidate _score_task makes of the task whose bucket was asked for,
\* read with the status given
C29_Candidate(status) ==
    _score_task([NewTask(1, attn.now - 1) EXCEPT
                    !.status = status,
                    !.priority = attn.priority,
                    !.due_at = attn.due_at,
                    !.do_not_start_before = attn.do_not_start_before],
                attn.now, FALSE, RankerRaised)

\* C29: a snoozed task whose do_not_start_before has passed is read as an
\* open one: it is actionable, and its bucket is the one its due date and
\* priority give an open task, not deferred_or_gated.
C29_ElapsedSnoozeReadAsOpen ==
    (/\ attn.pc = "returned"
     /\ attn.status = "snoozed"
     /\ attn.do_not_start_before # NoTime
     /\ attn.do_not_start_before <= attn.now)
    => /\ attn.bucket = C29_Candidate("open").deterministic_bucket_id
       /\ attn.bucket # "deferred_or_gated"
       /\ C29_Candidate("snoozed").is_actionable

\* The runs on record whose safety gate passed, by their place in the log
C30_AllowedRuns(run_id) ==
    {k \in 1..Len(log) : /\ log[k].event_type = "lab_experiment_run"
                         /\ log[k].data.run_id = run_id
                         /\ log[k].data.result.apply_allowed}

----------------------------------------------------------------------------
(* Claims about suggestions, canonicalised todos and queues *)

\* The lines a step appended
C31_Appended == SubSeq(log', Len(log) + 1, Len(log'))

\* The edited payload of the request is there and differs from the payload
C31_Differs(request) ==
    request.edited_payload # NoPayload /\ request.edited_payload # request.payload

C32_TasksOfTodo(message_event_id, title) ==
    {i \in DOMAIN tasks :
        /\ Len(tasks[i].source_ref) = 4
        /\ tasks[i].source_ref[1] = "message_event"
        /\ tasks[i].source_ref[2] = message_event_id
        /\ tasks[i].source_ref[3] = "todo"
        /\ tasks[i].title = title}

\* C32: however often the log is replayed and extraction is run again on a
\* message, the tasks table holds at most one task for one todo of one
\* message event.
C32_OneTaskPerTodo ==
    \A k \in 1..Len(log) :
        log[k].event_type = "object_extracted" /\ log[k].data.object_type = "todo"
        => Cardinality(C32_TasksOfTodo(log[k].data.source_event_id,
                                       log[k].data.object_data.title)) <= 1

\* The task suggestion names as the dependency
C33_Other(suggestion) == CHOOSE other \in suggestion.payload.blocked_by : TRUE

\* The score of the additive rules: same project 3, a label in common 2,
\* candidate of priority p0 or p1 1
C33_Score(task, other) ==
    (IF task.project # "None" /\ other.project = task.project THEN 3 ELSE 0)
    + (IF {task.labels[i] : i \in DOMAIN task.labels}
          \cap {other.labels[i] : i \in DOMAIN other.labels} # {} THEN 2 ELSE 0)
    + (IF other.priority = "p0" \/ other.priority = "p1" THEN 1 ELSE 0)

\* The task of id from depends, directly or through other tasks, on the task to
C33_DependsOn(from, to) ==
    to \in Visited([i \in DOMAIN tasks |-> tasks[i].blocked_by], Neighbors(
                       [i \in DOMAIN tasks |-> tasks[i].blocked_by], from))

\* C33: suggest_dependencies(task, limit) returns at most limit suggestions;
\* each names a different task, which is not the task itself, is neither done
\* nor cancelled, does not already depend on the task (linking it would close
\* a cycle) and scores above 0; and the scores never increase along the list.
C33_DependencySuggestions ==
    (last.op = "suggest_dependencies" /\ last.outcome = "ok") =>
        LET task  == tasks[last.id]
            items == last.items
        IN  /\ Len(items) <= last.limit
            /\ \A i \in 1..Len(items) :
                  /\ Cardinality(items[i].payload.blocked_by) = 1
                  /\ C33_Other(items[i]) \in DOMAIN tasks
                  /\ C33_Other(items[i]) # last.id
                  /\ tasks[C33_Other(items[i])].status \notin {"done", "cancelled"}
                  /\ ~C33_DependsOn(C33_Other(items[i]), last.id)
                  /\ C33_Score(task, tasks[C33_Other(items[i])]) > 0
            /\ \A i \in 1..Len(items) : \A j \in 1..Len(items) :
                  /\ i # j => C33_Other(items[i]) # C33_Other(items[j])
                  /\ i < j => C33_Score(task, tasks[C33_Other(items[i])])
                                  >= C33_Score(task, tasks[C33_Other(items[j])])

\* One suggestion returned under limit 1, with a positive-scoring candidate
\* cut by the limit and another left out because it depends on the task
C33_Witness ==
    /\ last.op = "suggest_dependencies" /\ last.outcome = "ok"
    /\ last.limit = 1
    /\ Len(last.items) = 1
    /\ \E other \in DOMAIN tasks :
          /\ other # last.id /\ other # C33_Other(last.items[1])
          /\ tasks[other].status = "open"
          /\ ~C33_DependsOn(other, last.id)
          /\ C33_Score(tasks[last.id], tasks[other]) > 0
          /\ C33_Score(tasks[last.id], tasks[other])
                < C33_Score(tasks[last.id], tasks[C33_Other(last.items[1])])
    /\ \E other \in DOMAIN tasks :
          /\ other # last.id
          /\ tasks[other].status = "open"
          /\ C33_DependsOn(other, last.id)
          /\ C33_Score(tasks[last.id], tasks[other]) > 0

\* Stale as the review queue has it: a due date in the past, or seven days
\* or more without an update
C34_Stale(task, now) ==
    \/ task.due_at # NoTime /\ task.due_at < now
    \/ now - task.updated_at >= 7 * 24

C34_Key(task, now) ==
    <<IF InList(TASK_LABEL_NEEDS_REVIEW, task.labels) THEN 0 ELSE 1,
      IF C34_Stale(task, now) THEN 0 ELSE 1,
      CASE task.priority = "p0" -> 0 [] task.priority = "p1" -> 1
        [] task.priority = "p2" -> 2 [] OTHER -> 3,
      task.updated_at>>

\* a comes no later than b in the order of the review queue
C34_InOrder(a, b, now) ==
    LET x == C34_Key(a, now)
        y == C34_Key(b, now)
    IN  \/ x[1] < y[1]
        \/ x[1] = y[1] /\ x[2] < y[2]
        \/ x[1] = y[1] /\ x[2] = y[2] /\ x[3] < y[3]
        \/ x[1] = y[1] /\ x[2] = y[2] /\ x[3] = y[3] /\ x[4] <= y[4]

\* C34: the review queue holds tasks that are neither done nor cancelled,
\* ordered by needs_review first, stale first, priority p0..p3, updated_at
\* ascending, and cut to limit after the sort: a task left out comes no
\* earlier in that order than the tasks returned.
C34_ReviewQueueOrder ==
    last.op = "review_queue" =>
        LET now   == clock - 1
            items == last.items
            open  == {i \in DOMAIN tasks : tasks[i].status \notin {"done", "cancelled"}}
            shown == {items[i].task.task_id : i \in 1..Len(items)}
        IN  /\ Len(items) = (IF last.limit < Cardinality(open) THEN last.limit
                             ELSE Cardinality(open))
            /\ Cardinality(shown) = Len(items)
            /\ shown \subseteq open
            /\ \A i \in 1..Len(items) :
                  /\ items[i].task = tasks[items[i].task.task_id]
                  /\ items[i].is_stale = C34_Stale(items[i].task, now)
                  /\ \A j \in 1..Len(items) :
                        i < j => C34_InOrder(items[i].task, items[j].task, now)
                  /\ \A other \in open \ shown :
                        C34_InOrder(items[i].task, tasks[other], now)

----------------------------------------------------------------------------
(* execute_with_retry: one statement against a connection another writer  *)
(* may hold locked. Time is counted in tenths of a second.                 *)

MaxRetries == 4
MaxLockTicks == 8

\* The statements a caller hands over: one that runs, one sqlite rejects with
\* an OperationalError that is no lock (no such table), one that breaks a
\* constraint (IntegrityError, no OperationalError)
RetryQueries == {"select", "no_such_table", "constraint"}

RetryIdle ==
    [at |-> "idle", query |-> "None", max_retries |-> 0, attempt |-> 0,
     errors |-> <<>>, result |-> "None"]

InitRetry ==
    /\ tasks = <<>>
    /\ objects = <<>>
    /\ log = <<>>
    /\ clock = 0
    /\ nextId = 1
    /\ last = Response("init", GhostId, "ok")
    /\ projection_metadata = [last_rebuild_timestamp |-> NoTime,
                              last_event_id_processed |-> GhostId]
    /\ attn = AttnIdle
    /\ env \in [lock_until : 0..MaxLockTicks]
    /\ pc = RetryIdle
    /\ files = <<>>

\* conn.execute(query, params): the cursor, or the exception sqlite raises
ConnExecute(query, now, lock_until) ==
    CASE query = "no_such_table" -> "OperationalError: no such table"
      [] query = "constraint"    -> "IntegrityError"
      [] now < lock_until        -> "OperationalError: database is locked"
      [] OTHER                   -> "cursor"

IsOperationalError(outcome) ==
    outcome \in {"OperationalError: no such table", "OperationalError: database is locked"}

\* (C35 mutant) every OperationalError is retried
ShouldRetry_AnyError(outcome, attempt, max_retries) ==
    attempt < max_retries - 1

\* "locked" in str(e).lower() and attempt < max_retries - 1
ShouldRetry(outcome, attempt, max_retries) ==
    /\ outcome = "OperationalError: database is locked"
    /\ attempt < max_retries - 1

\* The call: range(max_retries) is empty for max_retries = 0 and the function
\* falls off its end, returning None
RetryCall(query, max_retries) ==
    /\ pc.at = "idle"
    /\ pc' = [RetryIdle EXCEPT !.at = IF max_retries > 0 THEN "execute" ELSE "returned",
                               !.query = query,
                               !.max_retries = max_retries]
    /\ UNCHANGED <<tasks, objects, log, clock, nextId, last, projection_metadata,
                   attn, env, files>>

\* One pass of the try block
RetryExecute ==
    /\ pc.at = "execute"
    /\ LET outcome == ConnExecute(pc.query, clock, env.lock_until)
       IN  pc' = IF outcome = "cursor"
                     THEN [pc EXCEPT !.at = "returned", !.result = "cursor"]
                 ELSE IF ~IsOperationalError(outcome)
                     THEN [pc EXCEPT !.at = "raised", !.result = outcome,
                                     !.errors = Append(@, outcome)]
                 ELSE IF ShouldRetry(outcome, pc.attempt, pc.max_retries)
                     THEN [pc EXCEPT !.at = "sleep", !.errors = Append(@, outcome)]
                 ELSE [pc EXCEPT !.at = "raised", !.result = "DatabaseError",
                                 !.errors = Append(@, outcome)]
    /\ UNCHANGED <<tasks, objects, log, clock, nextId, last, projection_metadata,
                   attn, env, files>>

\* await asyncio.sleep(0.1 * (2**attempt)), then the next pass of the loop, or
\* its end
RetrySleep ==
    /\ pc.at = "sleep"
    /\ clock' = clock + 2 ^ pc.attempt
    /\ pc' = [pc EXCEPT !.attempt = @ + 1,
                        !.at = IF pc.attempt + 1 < pc.max_retries THEN "execute"
                               ELSE "returned"]
    /\ UNCHANGED <<tasks, objects, log, nextId, last, projection_metadata,
                   attn, env, files>>

NextRetry ==
    \/ \E query \in RetryQueries : \E max_retries \in 0..MaxRetries :
          RetryCall(query, max_retries)
    \/ RetryExecute
    \/ RetrySleep

SpecRetry == InitRetry /\ [][NextRetry]_vars

\* C35: execute_with_retry makes at most max_retries attempts and is never
\* left with work to do once they are used up; every error it retried was a
\* lock; a lock on the last attempt and an OperationalError that is no lock
\* both end the call with a DatabaseError, the latter on the attempt that
\* met it.
C35_RetryBounded ==
    LET tries == IF pc.at = "execute" THEN pc.attempt
                 ELSE IF pc.at = "sleep" THEN pc.attempt + 1
                 ELSE Len(pc.errors) + (IF pc.result = "cursor" THEN 1 ELSE 0)
    IN  /\ tries <= pc.max_retries
        /\ pc.at \in {"execute", "sleep"} => pc.attempt < pc.max_retries
        /\ pc.at = "sleep" => pc.attempt + 1 < pc.max_retries
        /\ \A i \in 1..Len(pc.errors) :
              (i < Len(pc.errors) \/ pc.at \in {"execute", "sleep"})
                  => pc.errors[i] = "OperationalError: database is locked"
        /\ (pc.at = "raised" /\ pc.errors[Len(pc.errors)] = "OperationalError: database is locked")
              => pc.result = "DatabaseError" /\ Len(pc.errors) = pc.max_retries
        /\ (pc.at = "raised" /\ pc.errors[Len(pc.errors)] = "OperationalError: no such table")
              => pc.result = "DatabaseError" /\ Len(pc.errors) = 1
        /\ (pc.at = "returned" /\ pc.max_retries > 0) => pc.result = "cursor"

C35_Witness ==
    /\ pc.at = "raised"
    /\ pc.max_retries = 3
    /\ pc.result = "DatabaseError"
    /\ pc.errors = <<"OperationalError: database is locked",
                     "OperationalError: database is locked",
                     "OperationalError: database is locked">>

----------------------------------------------------------------------------
(* notification_scheduler: the loop of the Telegram adapter, the            *)
(* notification_log table and the chat the messages arrive in. Time is in   *)
(* hours; clock % 24 is the hour of the day. The weekly digest is due on a  *)
(* day that does not come within the hours followed here, and               *)
(* TELEGRAM_CHAT_ID is set.                                                  *)

MaxNotifyHours == 17
MaxNotifyRuns == 2
MaxOperatorOps == 1

ATTENTION_URGENT_THRESHOLD == 60
REMINDER_WINDOW_START == 8
REMINDER_WINDOW_END == 21
DAILY_SUMMARY_HOUR == 20
UrgentWithinHours == 12
DigestWithinHours == 24
SendMaxRetries == 3

\* What one bot.send_message can come to. A request that timed out may or may
\* not have reached the chat.
SendOutcomes == {"ok", "RetryAfter", "TimedOut", "TimedOutDelivered", "NetworkError"}

\* The attempts one call of send_with_retry makes: it goes on after RetryAfter
\* and TimedOut while attempts are left, and stops at a result or at any
\* other exception
SendRuns ==
    {run \in UNION {[1..n -> SendOutcomes] : n \in 1..SendMaxRetries} :
        /\ \A i \in 1..(Len(run) - 1) : run[i] \in {"RetryAfter", "TimedOut", "TimedOutDelivered"}
        /\ run[Len(run)] \in {"ok", "NetworkError"} \/ Len(run) = SendMaxRetries}

\* send_with_retry: whether it returned, and how many copies reached the chat
send_with_retry(run) ==
    [returned  |-> run[Len(run)] = "ok",
     delivered |-> Cardinality({i \in 1..Len(run) : run[i] \in {"ok", "TimedOutDelivered"}})]

\* fingerprint = f"urgent:{task_id}:{item.get('urgency_score')}"
Fingerprint(item) == <<"urgent", item.task_id, item.urgency_score>>

\* was_notification_sent_recently; metadata LIKE %fingerprint% finds the rows
\* logged with that fingerprint. No object_id is GhostId, no metadata <<>>.
was_notification_sent_recently(rows, notification_type, object_id, within_hours, metadata_contains, now) ==
    \E i \in 1..Len(rows) :
        /\ rows[i].notification_type = notification_type
        /\ rows[i].sent_at >= now - within_hours
        /\ object_id # GhostId => rows[i].object_id = object_id
        /\ metadata_contains # <<>> => rows[i].metadata = metadata_contains

\* log_notification
log_notification(rows, notification_type, object_id, metadata, now) ==
    Append(rows, [notification_type |-> notification_type, object_id |-> object_id,
                  sent_at |-> now, metadata |-> metadata])

\* What a call of send_with_retry can come to
SendResults == {send_with_retry(run) : run \in SendRuns}

\* The copies of one message that reached the chat
Deliveries(kind, object_id, fingerprint, now, count) ==
    [i \in 1..count |-> [kind |-> kind, object_id |-> object_id,
                         fingerprint |-> fingerprint, at |-> now]]

\* get_today_attention of the AttentionService the scheduler builds (shadow
\* ranker on, no personalization), for the rows get_tasks gave and what the
\* ranker did: the lines it appends and top_actionable
TodayAttention(rows, uuid, now, limit, outcome) ==
    LET scored == [i \in 1..Len(rows) |-> _score_task(rows[i], now, TRUE, outcome)]
        perTask == IF outcome.raised THEN 1 ELSE 2
        lines  == [k \in 1..(perTask * Len(rows)) |->
                      ScoreLines(scored[((k - 1) \div perTask) + 1],
                                 uuid + perTask * ((k - 1) \div perTask),
                                 now, TRUE, outcome)[((k - 1) % perTask) + 1]]
        actionable == _sort_with_optional_personalization(
                          SelectSeq(scored, IsActionable), FALSE, 60)
        top_actionable == SubSeq(actionable, 1,
                                 IF limit < Len(actionable) THEN limit ELSE Len(actionable))
    IN  [lines |-> Append(lines, QueueLine(uuid + Len(lines), now, "today", top_actionable)),
         top_actionable |-> top_actionable]

SchedulerIdle == [at |-> "sleep", items |-> <<>>, runs |-> 0, ops |-> 0]

\* An overdue task that scores over the threshold and one that does not
NotifyTasks ==
    [i \in 1..2 |->
        AttnTaskRow(i, <<AttnShape("p1", "open", 1, AttnNow - 1),
                         AttnShape("p2", "open", 1, NoTime)>>[i])]

\* The hours between two passes of the loop that are followed
NotifyTicks == {4, 12}

\* scheduler.event_store is a module global that create_application leaves
\* unset; the loop runs with it unset or set by whoever wires the module
InitNotify ==
    /\ tasks = NotifyTasks
    /\ objects = <<>>
    /\ log = <<>>
    /\ clock = AttnNow
    /\ nextId = 3
    /\ last = Response("init", GhostId, "ok")
    /\ projection_metadata = [last_rebuild_timestamp |-> NoTime,
                              last_event_id_processed |-> GhostId,
                              notification_log |-> <<>>]
    /\ attn = AttnIdle
    /\ env \in [event_store : {"None", "FileEventStore"}, delivered : {<<>>}]
    /\ pc = SchedulerIdle
    /\ files = <<>>

\* One pass of the while loop up to the for loop of the urgent reminders:
\* check_and_send_daily_digest, then the start of
\* check_and_send_urgent_reminders. first_minutes says whether the pass falls
\* in the first five minutes of the hour, result what a send comes to.
LoopBegin(first_minutes, result, outcome) ==
    /\ pc.at = "sleep"
    /\ pc.runs < MaxNotifyRuns
    /\ \E rows \in get_tasks(tasks) :
        LET hour      == clock % 24
            wired     == env.event_store # "None"
            digestDue == /\ hour = DAILY_SUMMARY_HOUR
                         /\ first_minutes
                         /\ ~was_notification_sent_recently(
                                projection_metadata.notification_log,
                                "task_daily_digest", GhostId, DigestWithinHours, <<>>, clock)
            \* with no event store get_today_attention raises at its first append
            digest    == IF digestDue /\ wired
                         THEN TodayAttention(rows, nextId, clock, 5, outcome).lines
                         ELSE <<>>
            sent      == IF digestDue /\ wired THEN result
                         ELSE [returned |-> FALSE, delivered |-> 0]
            logged    == IF sent.returned
                         THEN log_notification(projection_metadata.notification_log,
                                               "task_daily_digest", GhostId, <<>>, clock)
                         ELSE projection_metadata.notification_log
            digestEv  == IF sent.returned
                         THEN <<SerializeEvent(nextId + Len(digest), "reminder_sent", clock,
                                               NoData,
                                               [reminder_type |-> "task_daily_digest"])>>
                         ELSE <<>>
            uuid      == nextId + Len(digest) + Len(digestEv)
            inWindow  == ~(hour < REMINDER_WINDOW_START \/ hour > REMINDER_WINDOW_END)
            today     == IF inWindow /\ wired
                         THEN TodayAttention(rows, uuid, clock, 20, outcome)
                         ELSE [lines |-> <<>>, top_actionable |-> <<>>]
        IN  /\ projection_metadata' = [projection_metadata EXCEPT !.notification_log = logged]
            /\ env' = [env EXCEPT !.delivered = @ \o Deliveries("task_daily_digest", GhostId,
                                                        <<>>, clock, sent.delivered)]
            /\ log' = log \o digest \o digestEv \o today.lines
            /\ nextId' = uuid + Len(today.lines)
            /\ pc' = [pc EXCEPT !.runs = @ + 1,
                                !.items = today.top_actionable,
                                !.at = IF today.top_actionable # <<>> THEN "urgent" ELSE "sleep"]
    /\ UNCHANGED <<tasks, objects, clock, last, attn, files>>

\* One pass of the for loop of check_and_send_urgent_reminders; an exception
\* of the send ends the function
UrgentItem(result) ==
    /\ pc.at = "urgent"
    /\ LET item        == Head(pc.items)
           task_id     == item.task_id
           fingerprint == Fingerprint(item)
           skip        == \/ item.urgency_score < ATTENTION_URGENT_THRESHOLD
                          \/ was_notification_sent_recently(
                                 projection_metadata.notification_log, "task_urgent_reminder",
                                 task_id, UrgentWithinHours, fingerprint, clock)
           sent        == IF skip THEN [returned |-> TRUE, delivered |-> 0]
                          ELSE result
           more        == sent.returned /\ Tail(pc.items) # <<>>
       IN  /\ projection_metadata' =
                  [projection_metadata EXCEPT !.notification_log =
                      IF ~skip /\ sent.returned
                      THEN log_notification(@, "task_urgent_reminder", task_id, fingerprint, clock)
                      ELSE @]
           /\ env' = [env EXCEPT !.delivered = @ \o Deliveries("task_urgent_reminder", task_id,
                                                       fingerprint, clock, sent.delivered)]
           /\ log' = IF ~skip /\ sent.returned
                     THEN Append(log, SerializeEvent(nextId, "reminder_sent", clock, NoData,
                                     [reminder_type |-> "task_urgent_reminder",
                                      object_id |-> task_id, fingerprint |-> fingerprint]))
                     ELSE log
           /\ nextId' = IF ~skip /\ sent.returned THEN nextId + 1 ELSE nextId
           /\ pc' = [pc EXCEPT !.items = IF more THEN Tail(@) ELSE <<>>,
                               !.at = IF more THEN "urgent" ELSE "sleep"]
    /\ UNCHANGED <<tasks, objects, clock, last, attn, files>>

\* await asyncio.sleep(60), as many times as make up the hours
NotifyTick(hours) ==
    /\ pc.at = "sleep"
    /\ clock + hours <= AttnNow + MaxNotifyHours
    /\ clock' = clock + hours
    /\ UNCHANGED <<tasks, objects, log, nextId, last, projection_metadata, attn, env, pc, files>>

\* The operator patches a task through the API while the loop runs
OperatorPatch(task_id, patch) ==
    /\ pc.ops < MaxOperatorOps
    /\ CommitMutation(ApplyPatch(tasks[task_id], patch), "patch", "Task updated via PATCH")
    /\ last' = Response("patch", task_id, "ok")
    /\ pc' = [pc EXCEPT !.ops = @ + 1]
    /\ UNCHANGED <<objects, clock, projection_metadata, attn, env, files>>

NextNotify ==
    \/ \E first_minutes \in BOOLEAN : \E result \in SendResults :
          \E outcome \in {RankerRaised, RankerResult(95, 60)} :
              LoopBegin(first_minutes, result, outcome)
    \/ \E result \in SendResults : UrgentItem(result)
    \/ \E hours \in NotifyTicks : NotifyTick(hours)
    \/ \E task_id \in DOMAIN tasks : \E patch \in {[priority |-> "p0"], [status |-> "done"]} :
          OperatorPatch(task_id, patch)

SpecNotify == InitNotify /\ [][NextNotify]_vars

----------------------------------------------------------------------------
(* Claims about the safety floor of experiments and about task mutations *)

\* The control changes apply_experiment appended for action = apply: the line
\* after an applied line of that action
C37_ApplyChanges ==
    {i \in 2..Len(log) :
        /\ log[i].event_type = "lab_control_changed"
        /\ log[i].metadata = [service |-> "lab_api", source |-> "experiment_apply"]
        /\ log[i - 1].event_type = "lab_experiment_applied"
        /\ log[i - 1].data.action = "apply"}

\* C37: every control change apply_experiment appends for action = apply has
\* a shadow_confidence_threshold of 0.4 or more, and while only experiments
\* have been run and applied the effective threshold is 0.4 or more.
C37_AppliedThresholdAtLeastFloor ==
    /\ \A i \in C37_ApplyChanges : log[i].data.after.shadow_confidence_threshold >= 40
    /\ (\A i \in 1..Len(log) : log[i].event_type \in {"lab_experiment_run",
                                                     "lab_experiment_applied"}
                               \/ i \in C37_ApplyChanges)
          => _effective_config(log, Config).shadow_confidence_threshold >= 40

\* apply_experiment has appended a control change for action = apply
C37_Case == C37_ApplyChanges # {}

----------------------------------------------------------------------------
(* patch_task, snooze_task and complete_task await by await, in two         *)
(* requests at a time: the read of the row, the upsert with its commit and  *)
(* read back, the decision event                                            *)

MaxMutateOps == 4

MutateIdle ==
    [at |-> "idle", request |-> NoData, task_id |-> GhostId, existing |-> NoTask,
     task |-> NoTask, updated |-> NoTask]

\* The mutations a request may ask for
MutateRequests ==
    {[action |-> "patch", patch |-> [priority |-> "p0"], rationale |-> "Task updated via PATCH"],
     [action |-> "patch", patch |-> [status |-> "open"], rationale |-> "Task updated via PATCH"],
     [action |-> "snooze", until |-> 9, rationale |-> "Task snoozed"],
     [action |-> "complete", rationale |-> "Task marked done"]}

InitMutate ==
    /\ tasks = [i \in 1..2 |-> [NewTask(i, 0) EXCEPT !.title = "Buy milk"]]
    /\ objects = <<>>
    /\ log = <<>>
    /\ clock = 1
    /\ nextId = 3
    /\ last = Response("init", GhostId, "none")
    /\ projection_metadata = [last_rebuild_timestamp |-> NoTime,
                              last_event_id_processed |-> GhostId]
    /\ attn = AttnIdle
    /\ env = DefaultEnv
    /\ pc = [h \in Handlers |-> MutateIdle]
    /\ files = <<>>

\* task = Task(**existing) with the fields the request sets
Mutated(existing, request, now) ==
    CASE request.action = "patch"    -> ApplyPatch(existing, request.patch)
      [] request.action = "snooze"   -> [existing EXCEPT !.status = "snoozed",
                                                         !.do_not_start_before = request.until]
      [] request.action = "complete" -> [existing EXCEPT !.status = "done",
                                                         !.completed_at = now]

\* existing = await self.query_service.get_task_by_id(task_id), and the task
\* built from it; None is returned when there is no row
MutateRead(h, task_id, request) ==
    /\ clock < MaxMutateOps
    /\ pc[h].at \in {"idle", "returned"}
    /\ LET existing == get_task_by_id(tasks, task_id)
           row == [Mutated(existing, request, clock) EXCEPT
                      !.updated_at   = clock,
                      !.explanations = Append(@, TaskExplanation(clock, request.action,
                                                                 request.rationale))]
       IN  pc' = [pc EXCEPT ![h] =
                     IF ~IsRow(existing)
                     THEN [MutateIdle EXCEPT !.at = "returned", !.request = request,
                                             !.task_id = task_id]
                     ELSE [MutateIdle EXCEPT !.at = "read", !.request = request,
                                             !.task_id = task_id, !.existing = existing,
                                             !.task = row]]
    /\ clock' = clock + 1
    /\ UNCHANGED <<tasks, objects, log, nextId, last, projection_metadata, attn, env, files>>

\* await self.query_service._upsert_task(...); conn.commit();
\* updated = await self.query_service.get_task_by_id(task_id)
MutateWrite(h) ==
    /\ pc[h].at = "read"
    /\ tasks' = _upsert_task(tasks, pc[h].task)
    /\ pc' = [pc EXCEPT ![h].at = "written",
                        ![h].updated = get_task_by_id(_upsert_task(tasks, pc[h].task),
                                                      pc[h].task_id)]
    /\ UNCHANGED <<objects, log, clock, nextId, last, projection_metadata, attn, env, files>>

\* await self._record_decision(...); return updated
MutateRecord(h) ==
    /\ pc[h].at = "written"
    /\ log' = Append(log, DecisionLine(nextId, clock, pc[h].request.action,
                                       pc[h].request.rationale, pc[h].updated, "api",
                                       <<"task", pc[h].task_id, pc[h].request.action,
                                         pc[h].task.updated_at>>))
    /\ nextId' = nextId + 1
    /\ pc' = [pc EXCEPT ![h].at = "returned"]
    /\ last' = Response(pc[h].request.action, pc[h].task_id, "ok")
    /\ UNCHANGED <<tasks, objects, clock, projection_metadata, attn, env, files>>

NextMutate ==
    \/ \E h \in Handlers : \E task_id \in TaskIdArgs : \E request \in MutateRequests :
          MutateRead(h, task_id, request)
    \/ \E h \in Handlers : MutateWrite(h)
    \/ \E h \in Handlers : MutateRecord(h)

SpecMutate == InitMutate /\ [][NextMutate]_vars

\* The fields a mutation sets, with their values
C38_Changes(request) ==
    CASE request.action = "patch"    -> request.patch
      [] request.action = "snooze"   -> [status |-> "snoozed", do_not_start_before |-> request.until]
      [] request.action = "complete" -> [status |-> "done"]

\* C38: when two requests that mutate the same task in different fields have
\* both returned, the row holds the change of each, and the snapshot of the
\* last decision event is the row.
C38_BothMutationsTakeEffect ==
    \A g \in Handlers : \A h \in Handlers :
        (/\ g # h
         /\ pc[g].at = "returned" /\ IsRow(pc[g].existing)
         /\ pc[h].at = "returned" /\ IsRow(pc[h].existing)
         /\ pc[g].task_id = pc[h].task_id
         /\ DOMAIN C38_Changes(pc[g].request) \cap DOMAIN C38_Changes(pc[h].request) = {})
        => /\ \A k \in DOMAIN C38_Changes(pc[g].request) :
                  tasks[pc[g].task_id][k] = C38_Changes(pc[g].request)[k]
           /\ log[Len(log)].data.task_snapshot = tasks[log[Len(log)].data.task_snapshot.task_id]

\* C39: every task whose status is done has a completed_at.
C39_DoneHasCompletedAt ==
    \A task_id \in DOMAIN tasks :
        tasks[task_id].status = "done" => tasks[task_id].completed_at # NoTime

\* The split of request was applied to the task before
C40_AppliedBefore(task_id, request) ==
    \E i \in 1..Len(log) :
        /\ log[i].event_type = "suggestion_applied"
        /\ log[i].data.task_id = task_id
        /\ log[i].data.suggestion_id = request.suggestion_id
        /\ log[i].data.applied_payload = request.payload

\* C40: a split applied to a task a second time adds no task row, and the
\* created_task_ids it returns are the rows the first apply ingested under
\* suggestion:<suggestion_id>:split:<index>.
C40_SecondSplitCreatesNothing ==
    [][\A task_id \in DOMAIN tasks : \A request \in ApplySuggestionRequests :
          (/\ last'.op = "apply_suggestion"
           /\ last'.id = task_id
           /\ request.suggestion_type = "split"
           /\ C40_AppliedBefore(task_id, request)
           /\ apply_suggestion(task_id, request))
          => /\ DOMAIN tasks' = DOMAIN tasks
             /\ Len(last'.created_task_ids) = Len(request.payload.subtasks)
             /\ \A index \in 0..(Len(request.payload.subtasks) - 1) :
                   TasksBySourceRef(tasks, "api",
                                    <<"suggestion", request.suggestion_id, "split", index>>)
                       = {last'.created_task_ids[index + 1]}
    ]_vars

\* The split has been applied twice to a task, and its subtask is there
C40_Witness ==
    /\ last.op = "apply_suggestion"
    /\ last.outcome = "applied"
    /\ Len(last.created_task_ids) = 1
    /\ last.created_task_ids[1] \in DOMAIN tasks
    /\ Cardinality({i \in 1..Len(log) :
                       /\ log[i].event_type = "suggestion_applied"
                       /\ log[i].data.task_id = last.id
                       /\ log[i].data.suggestion_type = "split"}) = 2

====
